---------------------------- MODULE Spec2Model ----------------------------
(***************************************************************************)
(* A model of the audio-to-subtitle pipeline:                              *)
(*   split_audio.py         the segment planner                            *)
(*   transcript.py          the parallel transcription orchestrator        *)
(*   combine_transcripts.py the cue extractor and subtitle synthesizer     *)
(*   process_audio.py       run_pipeline, the stage sequencer              *)
(* Each component has its own specification (SpecPlanner, SpecTranscribe,  *)
(* SpecSrt, SpecPipeline); the variables of the other components keep the  *)
(* idle value they are given in Init.                                      *)
(***************************************************************************)
EXTENDS Integers, Sequences, FiniteSets, TLC

VARIABLES
    \* ---- split_audio.py: find_optimal_split_points_sec ----
    audio_length_sec,       \* T, in half grid units (see PLANNER below)
    silence_points_sec,     \* sequence of <<start, end>>, in grid units
    max_chunk_length_sec,   \* maxLen, in half grid units
    final_split_points,     \* the returned cut points, in half grid units
    pcPlan                  \* "call" | "done" | "idle"

VARIABLES
    \* ---- transcript.py: run_transcription ----
    skip_existing,      \* run_transcription's parameter
    max_workers,        \* run_transcription's parameter
    client_ok,          \* whether initialize_genai_client succeeds
    dir_exists,         \* whether os.listdir(audio_dir) succeeds
    audio_files,        \* the sorted list of chunk files
    artifact,           \* chunk -> text of intermediate_dir/<stem>.txt
    next_task,          \* index in audio_files of the next task the pool hands out
    worker,             \* pool thread -> [pc, chunk, attempt, found, result]
    processed_count,
    success_count,
    skipped_count,
    attempts_made,      \* chunk -> attempts started against the remote service
    success_attempt,    \* chunk -> number of the attempt that succeeded, 0 if none
    pcRun,              \* "start" | "pool" | "done" | "idle"
    run_result          \* "none" | "True" | "False"

VARIABLES
    \* ---- combine_transcripts.py: generate_srt ----
    content_choice,     \* "translation" | "transcript" | "both"
    first_chunk_offset, \* ticks
    dir_listing,        \* the .mp3 names of os.listdir(audio_dir), in its order
    srt_audio_files,    \* audio_files: the names after the sort of line 169
    srt_i,              \* the chunk the for loop of line 185 is at (1-based)
    global_offset,      \* ticks
    probed_total,       \* the sum of the durations probed so far, ticks
    all_srt_entries,    \* sequence of [start, end, text, ideal_end, constraint_time]
    srt_file,           \* the subtitle file: [state, cues]
    srt_result,         \* "none" | "True" | "False" | "PARSE_ERROR"
    saw_bad_timestamp,  \* some chunk's selected section held a line whose
                        \* timestamp is malformed or missing
    cues_well_ordered,  \* in every chunk read so far the cue offsets are
                        \* non-decreasing and none exceeds the probed duration
    pcSrt               \* "list" | "chunks" | "done" | "idle"

\* run_pipeline (process_audio.py): its parameters and environment, its
\* position, its return value, the stages it has started in order, the number
\* of generate_srt calls, the control messages it has received in order, and
\* what cleanup has deleted.
VARIABLES
    params, pcPipe, pipe_result, stage_log, srt_calls, received, deleted,
    failed_stage,   \* the stage whose call reported failure, "none" before
    pipe_srt_result \* what the last call of generate_srt returned (line 223)

\* extract_segments called on its own: the artifact text, the selector and
\* the returned segments.
VARIABLES
    transcript_text, ex_content_choice, segments, pcExtract

\* The pattern of line 150 and parse_timestamp_sec applied to one line of the
\* selected section: the parts the line is made of and what the line yields.
VARIABLES
    line_parts, line_cue, pcLine

\* The exporter (split_audio): the probed duration, the silence intervals
\* detected, the maximum chunk length, the planned cut points with the total
\* length appended, the number of the loop's current iteration (the chunk
\* number of its file name), the start of the next chunk, the chunks exported
\* so far, the position in the function and its result.
VARIABLES
    total_length_sec, detected_silences, chunk_max_length_sec,
    split_points_sec, split_index, start_time_sec, chunk_files,
    pcSplit, split_result

\* The retry loop of process_audio_file for one chunk: the 0-based number of
\* the attempt that runs next, the waits slept so far as [attempt, class,
\* delay], the position in the function and what it returned.
VARIABLES
    retry_attempt, retry_waits, pcRetry, retry_result

\* Region rotation (transcript.py, multi-region mode): the module's shared
\* index, the holder of _region_lock (0 when free), the regions get_next_region
\* has handed out in call order, and each pool thread's position.
VARIABLES
    current_region_index, region_lock, region_calls, region_worker

\* One call of process_audio_file seen at its remote operations
\* (transcript.py): the loop's attempt, the handle of line 137 (its state as
\* last fetched), the state the service holds for the staged file, the parity
\* of the time.sleep(2) calls of line 141, what has happened in the running
\* attempt, the attempts that have ended, the position and the value returned.
VARIABLES
    upload_attempt, uploaded_file, server_state, poll_tick, this_attempt,
    attempt_log, pcUpload, upload_result

planVars == <<audio_length_sec, silence_points_sec, max_chunk_length_sec,
              final_split_points, pcPlan>>

txVars == <<skip_existing, max_workers, client_ok, dir_exists, audio_files,
            artifact, next_task, worker, processed_count, success_count,
            skipped_count, attempts_made, success_attempt, pcRun, run_result>>

srtVars == <<content_choice, first_chunk_offset, dir_listing, srt_audio_files, srt_i,
             global_offset, probed_total, all_srt_entries, srt_file, srt_result,
             saw_bad_timestamp, cues_well_ordered, pcSrt>>

pipeVars == <<params, pcPipe, pipe_result, stage_log, srt_calls, received, deleted,
              failed_stage, pipe_srt_result>>

splitVars == <<total_length_sec, detected_silences, chunk_max_length_sec,
               split_points_sec, split_index, start_time_sec, chunk_files,
               pcSplit, split_result>>

retryVars == <<retry_attempt, retry_waits, pcRetry, retry_result>>

regionVars == <<current_region_index, region_lock, region_calls, region_worker>>

uploadVars ==
    <<upload_attempt, uploaded_file, server_state, poll_tick, this_attempt,
      attempt_log, pcUpload, upload_result>>

extractVars == <<transcript_text, ex_content_choice, segments, pcExtract>>

lineVars == <<line_parts, line_cue, pcLine>>

vars ==
    <<planVars, txVars, srtVars, pipeVars, extractVars, lineVars, splitVars, retryVars, regionVars,
      uploadVars>>

-----------------------------------------------------------------------------
(***************************************************************************)
(* PLANNER (split_audio.py).  Times are exact rationals in the code's      *)
(* intent; the model stores them doubled so that a silence midpoint        *)
(* (start + end) / 2.0 is an integer: a silence interval <<s, e>> is given *)
(* in grid units and every other time (T, maxLen, cursor, cut points) in   *)
(* half grid units, so the midpoint of <<s, e>> is s + e.                  *)
(***************************************************************************)

\* Bounds of the planner's inputs.
MaxAudioLen == 8        \* T ranges over 1..MaxAudioLen (half grid units)
MaxChunkLen == 3        \* maxLen ranges over 1..MaxChunkLen (half grid units)
MaxSilenceEnd == 4      \* silence starts and ends range over 0..MaxSilenceEnd
MaxSilences == 2        \* at most this many silence intervals

\* What detect_silence_with_ffmpeg can hand over: end > start for every interval
\* (line 69); the order and the overlap of the intervals are not constrained, and
\* an interval may lie beyond T.
SilenceIntervals ==
    {<<s, e>> : s \in 0..MaxSilenceEnd, e \in 0..MaxSilenceEnd} \
        {<<s, e>> \in (0..MaxSilenceEnd) \X (0..MaxSilenceEnd) : e <= s}

RECURSIVE SeqsUpTo(_, _)
SeqsUpTo(S, n) ==
    IF n = 0 THEN {<<>>}
    ELSE LET shorter == SeqsUpTo(S, n - 1)
         IN  shorter \cup {Append(q, x) : q \in {r \in shorter : Len(r) = n - 1}, x \in S}

silence_midpoint(interval) == interval[1] + interval[2]

\* The forced-cut loop written as an 'if': at most one forced cut per stretch.
ForcedCutsOnce(current_chunk_start, target, maxLen) ==
    IF target - current_chunk_start > maxLen
    THEN <<current_chunk_start + maxLen>>
    ELSE <<>>

\* The forced-cut loop with '>=' for '>': a forced cut also at distance maxLen.
RECURSIVE ForcedCutsEager(_, _, _)
ForcedCutsEager(current_chunk_start, target, maxLen) ==
    IF target - current_chunk_start >= maxLen
    THEN <<current_chunk_start + maxLen>>
            \o ForcedCutsEager(current_chunk_start + maxLen, target, maxLen)
    ELSE <<>>

\* The forced cuts of one "while (target - current_chunk_start) > max_chunk_length_sec"
\* loop, in the order they are appended.
RECURSIVE ForcedCuts(_, _, _)
ForcedCuts(current_chunk_start, target, maxLen) ==
    IF target - current_chunk_start > maxLen
    THEN <<current_chunk_start + maxLen>>
            \o ForcedCuts(current_chunk_start + maxLen, target, maxLen)
    ELSE <<>>

\* The walk with line 96 left out: the cursor stays at the last forced cut.
RECURSIVE SplitWalkCursorKept(_, _, _, _)
SplitWalkCursorKept(silences, current_chunk_start, T, maxLen) ==
    IF silences = <<>>
    THEN ForcedCuts(current_chunk_start, T, maxLen)
    ELSE LET mid == silence_midpoint(Head(silences))
             forced == ForcedCuts(current_chunk_start, mid, maxLen)
             cursor == IF forced = <<>> THEN current_chunk_start
                                       ELSE forced[Len(forced)]
         IN  forced \o <<mid>> \o SplitWalkCursorKept(Tail(silences), cursor, T, maxLen)

\* The for loop over silence_points_sec followed by the trailing while loop:
\* split_points as appended, before the filter.  After a silence interval the
\* cursor is its midpoint, whatever forced cuts preceded it (line 96).
RECURSIVE SplitWalk(_, _, _, _)
SplitWalk(silences, current_chunk_start, T, maxLen) ==
    IF silences = <<>>
    THEN ForcedCuts(current_chunk_start, T, maxLen)
    ELSE LET mid == silence_midpoint(Head(silences))
             forced == ForcedCuts(current_chunk_start, mid, maxLen)
         IN  forced \o <<mid>> \o SplitWalk(Tail(silences), mid, T, maxLen)

Range(q) == {q[i] : i \in DOMAIN q}

\* sorted(list(S)) for a finite set of integers.
RECURSIVE SortedSeq(_)
SortedSeq(S) ==
    IF S = {} THEN <<>>
    ELSE LET m == CHOOSE x \in S : \A y \in S : x <= y
         IN  <<m>> \o SortedSeq(S \ {m})

\* The walk's list handed back as it is: not filtered, not deduplicated, not
\* sorted.
find_optimal_split_points_sec_raw(T, silences, maxLen) ==
    SplitWalk(silences, 0, T, maxLen)

find_optimal_split_points_sec(T, silences, maxLen) ==
    SortedSeq({p \in Range(SplitWalk(silences, 0, T, maxLen)) : 0 < p /\ p < T})

PlanInit ==
    /\ audio_length_sec \in 1..MaxAudioLen
    /\ max_chunk_length_sec \in 1..MaxChunkLen
    /\ silence_points_sec \in SeqsUpTo(SilenceIntervals, MaxSilences)
    /\ final_split_points = <<>>
    /\ pcPlan = "call"

PlanIdle ==
    /\ audio_length_sec = 0
    /\ max_chunk_length_sec = 0
    /\ silence_points_sec = <<>>
    /\ final_split_points = <<>>
    /\ pcPlan = "idle"

PlanCall ==
    /\ pcPlan = "call"
    /\ final_split_points' =
          find_optimal_split_points_sec(audio_length_sec, silence_points_sec,
                                        max_chunk_length_sec)
    /\ pcPlan' = "done"
    /\ UNCHANGED <<audio_length_sec, silence_points_sec, max_chunk_length_sec>>
    /\ UNCHANGED <<txVars, srtVars, pipeVars, extractVars, lineVars, splitVars, retryVars, regionVars, uploadVars>>

\* 0, c1, ..., cn, T
Boundaries == <<0>> \o final_split_points \o <<audio_length_sec>>

\* C1: for every T > 0, every list of silence intervals and every maxLen > 0,
\* every two adjacent values of 0, c1, ..., cn, T differ by at most maxLen.
C1_AdjacentCutsWithinMaxLen ==
    pcPlan = "done" =>
        \A i \in 1..(Len(Boundaries) - 1) :
            Boundaries[i + 1] - Boundaries[i] <= max_chunk_length_sec

\* A run where forced cuts were needed both before a silence midpoint and
\* after the last one, and the silence midpoint is itself a cut.
C1_Witness ==
    /\ pcPlan = "done"
    /\ Len(silence_points_sec) = 1
    /\ silence_midpoint(silence_points_sec[1]) > max_chunk_length_sec
    /\ silence_midpoint(silence_points_sec[1]) \in Range(final_split_points)
    /\ audio_length_sec - silence_midpoint(silence_points_sec[1]) > max_chunk_length_sec
    /\ Len(final_split_points) >= 3

\* The list the walk of lines 83-101 produced, before line 103.
split_points == SplitWalk(silence_points_sec, 0, audio_length_sec, max_chunk_length_sec)

\* C17: whatever the order and the values of the silence intervals, the cut
\* points are strictly increasing (hence without duplicates) and each lies
\* strictly between 0 and T.
C17_CutsStrictlyIncreasingInside ==
    pcPlan = "done" =>
        /\ \A i \in DOMAIN final_split_points :
              0 < final_split_points[i] /\ final_split_points[i] < audio_length_sec
        /\ \A i, j \in DOMAIN final_split_points :
              i < j => final_split_points[i] < final_split_points[j]

\* A call whose walk produced a point twice, a point after a larger one and a
\* point at or beyond T, and which still returns two cut points or more.
C17_Witness ==
    /\ pcPlan = "done"
    /\ Len(final_split_points) >= 2
    /\ \E i, j \in DOMAIN split_points : i < j /\ split_points[i] = split_points[j]
    /\ \E i, j \in DOMAIN split_points : i < j /\ split_points[i] > split_points[j]
    /\ \E i \in DOMAIN split_points : split_points[i] >= audio_length_sec

-----------------------------------------------------------------------------
(***************************************************************************)
(* TRANSCRIPTION ORCHESTRATOR (transcript.py).                             *)
(* A chunk file is named by its number.  The text of an artifact (and of a *)
(* service response) is kept as the facts the code reads from it:          *)
(*   "OK"          the four sections of the template, the word "error"     *)
(*                 nowhere in it                                           *)
(*   "OK_ERRWORD"  the four sections, with the word "error" in the spoken  *)
(*                 text (a transcript of speech that says "error")         *)
(*   "NOHDR"       text without "timestamped transcript:" and without      *)
(*                 "error"                                                 *)
(*   "EMPTY"       the empty string (a zero-byte file)                     *)
(*   "MARKER"      the failure marker of line 202, "Error processing ..."  *)
(*   "ABSENT"      no file (artifacts only)                                *)
(***************************************************************************)
MAX_RETRIES == 5
DEFAULT_MAX_WORKERS == 2

\* Bound of the orchestrator's input: the chunk directory holds 0..MaxChunks
\* chunk files.  max_workers ranges over 0..DEFAULT_MAX_WORKERS (the command
\* line of process_audio.py takes any integer).
MaxChunks == 2

ChunkIds == 1..MaxChunks
WorkerIds == 1..DEFAULT_MAX_WORKERS

ResponseTexts == {"OK", "OK_ERRWORD", "NOHDR", "EMPTY"}
ArtifactTexts == ResponseTexts \cup {"MARKER", "ABSENT"}

\* "error" in text.lower()
ContainsError(text) == text \in {"OK_ERRWORD", "MARKER"}
\* "timestamped transcript:" in text.lower()
ContainsHeader(text) == text \in {"OK", "OK_ERRWORD"}
\* The text process_audio_file writes after the last failed attempt.
IsFailureMarker(text) == text = "MARKER"

\* The validity test reduced to line 239: any non-empty file is taken.
is_valid_transcript_any_file(text) == ~(text = "ABSENT" \/ text = "EMPTY")

is_valid_transcript(text) ==
    IF text = "ABSENT" \/ text = "EMPTY"
    THEN FALSE
    ELSE ~ContainsError(text) /\ ContainsHeader(text)

\* attempt in range(MAX_RETRIES)
InRange(attempt) == 0 <= attempt /\ attempt < MAX_RETRIES

\* The test of line 186 off by one: the last attempt is taken for an earlier one.
IsLastAttemptOff(attempt) == ~(attempt < MAX_RETRIES)

\* "attempt < MAX_RETRIES - 1" fails: the attempt was the last one.
IsLastAttempt(attempt) == ~(attempt < MAX_RETRIES - 1)

\* The for loop moves on to its next attempt, or, past the end of the range,
\* falls to the "return ''" of line 207.
LoopOn(w_rec) ==
    IF InRange(w_rec.attempt + 1)
    THEN [w_rec EXCEPT !.attempt = @ + 1]
    ELSE [w_rec EXCEPT !.pc = "count", !.result = "EMPTY"]

\* A successful attempt that does not leave the loop.
AfterSuccessNoReturn(w_rec, text) == LoopOn(w_rec)

\* "return transcript" (line 173)
AfterSuccess(w_rec, text) == [w_rec EXCEPT !.pc = "count", !.result = text]

\* "result and 'error' not in result.lower()"
CountsAsSuccess(result) == result # "EMPTY" /\ ~ContainsError(result)

\* The pool sized without regard to max_workers.
actual_workers_whole_pool ==
    IF DEFAULT_MAX_WORKERS < Len(audio_files) THEN DEFAULT_MAX_WORKERS ELSE Len(audio_files)

\* Line 273: min(max_workers, len(audio_files)).
actual_workers == IF max_workers < Len(audio_files) THEN max_workers ELSE Len(audio_files)

\* The artifact left as it was.
write_transcript_skipped(old, text) == old

\* Lines 162-163: the artifact is overwritten with the response text.
write_transcript(old, text) == text

\* An increment that is lost.
counted_lost(count) == count

\* "processed_count += 1" under count_lock (lines 252 and 264).
counted(count) == count + 1

\* A pool thread: where it is in process_file_wrapper, the chunk it holds, the
\* loop variable attempt, the artifact text is_valid_transcript read, and the
\* value process_audio_file returned.
IdleWorker == [pc |-> "idle", chunk |-> 0, attempt |-> 0, found |-> "ABSENT",
               result |-> "EMPTY"]

TxInit ==
    /\ skip_existing \in BOOLEAN
    /\ max_workers \in 0..DEFAULT_MAX_WORKERS
    /\ client_ok \in BOOLEAN
    /\ dir_exists \in BOOLEAN
    /\ \E n \in 0..MaxChunks : audio_files = [i \in 1..n |-> i]
    /\ artifact \in [ChunkIds -> ArtifactTexts]
    /\ \A c \in ChunkIds : c > Len(audio_files) => artifact[c] = "ABSENT"
    /\ next_task = 1
    /\ worker = [w \in WorkerIds |-> IdleWorker]
    /\ processed_count = 0
    /\ success_count = 0
    /\ skipped_count = 0
    /\ attempts_made = [c \in ChunkIds |-> 0]
    /\ success_attempt = [c \in ChunkIds |-> 0]
    /\ pcRun = "start"
    /\ run_result = "none"

TxIdle ==
    /\ skip_existing = FALSE
    /\ max_workers = 0
    /\ client_ok = FALSE
    /\ dir_exists = FALSE
    /\ audio_files = <<>>
    /\ artifact = <<>>
    /\ next_task = 0
    /\ worker = <<>>
    /\ processed_count = 0
    /\ success_count = 0
    /\ skipped_count = 0
    /\ attempts_made = <<>>
    /\ success_attempt = <<>>
    /\ pcRun = "idle"
    /\ run_result = "none"

txParams == <<skip_existing, max_workers, client_ok, dir_exists, audio_files>>

\* run_transcription up to the creation of the pool: the three early returns,
\* and ThreadPoolExecutor(max_workers=actual_workers), which raises ValueError
\* when actual_workers is not positive (nothing in run_transcription catches it).
RunStart ==
    /\ pcRun = "start"
    /\ IF ~client_ok \/ ~dir_exists \/ audio_files = <<>>
       THEN pcRun' = "done" /\ run_result' = "False"
       ELSE IF actual_workers <= 0
       THEN pcRun' = "done" /\ run_result' = "raises"
       ELSE pcRun' = "pool" /\ run_result' = run_result
    /\ UNCHANGED <<txParams, artifact, next_task, worker, processed_count,
                   success_count, skipped_count, attempts_made, success_attempt>>
    /\ UNCHANGED <<planVars, srtVars, pipeVars, extractVars, lineVars, splitVars, retryVars, regionVars, uploadVars>>

\* The pool has a task left and thread w may take it.  The threads are
\* interchangeable (they share no state of their own a task reads), so the
\* lowest-numbered idle thread is the one that takes it.
TakesNext(w) ==
    /\ pcRun = "pool"
    /\ w <= actual_workers
    /\ worker[w].pc = "idle"
    /\ \A v \in 1..(w - 1) : worker[v].pc # "idle"
    /\ next_task <= Len(audio_files)

\* A pool thread takes the next task of executor.map and process_file_wrapper
\* finds a valid artifact: the three counters move under count_lock and the
\* wrapper returns "SKIPPED".
WorkerSkip(w) ==
    /\ TakesNext(w)
    /\ skip_existing /\ is_valid_transcript(artifact[audio_files[next_task]])
    /\ next_task' = next_task + 1
    /\ processed_count' = counted(processed_count)
    /\ skipped_count' = skipped_count + 1
    /\ success_count' = success_count + 1
    /\ UNCHANGED <<txParams, artifact, worker, attempts_made, success_attempt,
                   pcRun, run_result>>
    /\ UNCHANGED <<planVars, srtVars, pipeVars, extractVars, lineVars, splitVars, retryVars, regionVars, uploadVars>>

\* ... or finds none and enters process_audio_file: attempt 0 is about to start.
WorkerBegin(w) ==
    /\ TakesNext(w)
    /\ ~(skip_existing /\ is_valid_transcript(artifact[audio_files[next_task]]))
    /\ next_task' = next_task + 1
    /\ worker' = [worker EXCEPT ![w] = [pc |-> "attempt", chunk |-> audio_files[next_task],
                                        attempt |-> 0,
                                        found |-> artifact[audio_files[next_task]],
                                        result |-> "EMPTY"]]
    /\ UNCHANGED <<txParams, artifact, processed_count, success_count, skipped_count,
                   attempts_made, success_attempt, pcRun, run_result>>
    /\ UNCHANGED <<planVars, srtVars, pipeVars, extractVars, lineVars, splitVars, retryVars, regionVars, uploadVars>>

\* One attempt of the for loop runs to its "return transcript": upload, poll,
\* generate_content, the artifact written with the response text, the upload
\* deleted.
AttemptSucceeds(w) ==
    /\ worker[w].pc = "attempt"
    /\ InRange(worker[w].attempt)
    /\ \E text \in ResponseTexts :
          LET c == worker[w].chunk IN
          /\ attempts_made' = [attempts_made EXCEPT ![c] = @ + 1]
          /\ success_attempt' = [success_attempt EXCEPT ![c] = attempts_made[c] + 1]
          /\ artifact' = [artifact EXCEPT ![c] = write_transcript(@, text)]
          /\ worker' = [worker EXCEPT ![w] = AfterSuccess(@, text)]
    /\ UNCHANGED <<txParams, next_task, processed_count, success_count, skipped_count,
                   pcRun, run_result>>
    /\ UNCHANGED <<planVars, srtVars, pipeVars, extractVars, lineVars, splitVars, retryVars, regionVars, uploadVars>>

\* One attempt raises (client creation, upload, a FAILED upload, generate_content,
\* or response.text being None, in which case open(..., "w") has already emptied
\* the artifact): the except branch either sleeps and lets the loop go on, or,
\* after the last attempt, writes the failure marker and returns "".
AttemptFails(w) ==
    /\ worker[w].pc = "attempt"
    /\ InRange(worker[w].attempt)
    /\ \E truncated \in BOOLEAN :
          LET c == worker[w].chunk IN
          /\ attempts_made' = [attempts_made EXCEPT ![c] = @ + 1]
          /\ IF IsLastAttempt(worker[w].attempt)
             THEN /\ artifact' = [artifact EXCEPT ![c] = "MARKER"]
                  /\ worker' = [worker EXCEPT ![w].pc = "count", ![w].result = "EMPTY"]
             ELSE /\ artifact' = [artifact EXCEPT ![c] = IF truncated THEN "EMPTY" ELSE @]
                  /\ worker' = [worker EXCEPT ![w] = LoopOn(@)]
    /\ UNCHANGED <<txParams, next_task, processed_count, success_count, skipped_count,
                   success_attempt, pcRun, run_result>>
    /\ UNCHANGED <<planVars, srtVars, pipeVars, extractVars, lineVars, splitVars, retryVars, regionVars, uploadVars>>

\* Back in process_file_wrapper: the counters move under count_lock and the
\* thread is free for the next task.
WorkerCount(w) ==
    /\ worker[w].pc = "count"
    /\ processed_count' = counted(processed_count)
    /\ success_count' = IF CountsAsSuccess(worker[w].result)
                        THEN success_count + 1 ELSE success_count
    /\ worker' = [worker EXCEPT ![w] = IdleWorker]
    /\ UNCHANGED <<txParams, artifact, next_task, skipped_count, attempts_made,
                   success_attempt, pcRun, run_result>>
    /\ UNCHANGED <<planVars, srtVars, pipeVars, extractVars, lineVars, splitVars, retryVars, regionVars, uploadVars>>

\* The with block ends once every task has run; run_transcription returns True.
RunFinish ==
    /\ pcRun = "pool"
    /\ next_task > Len(audio_files)
    /\ \A w \in WorkerIds : worker[w].pc = "idle"
    /\ pcRun' = "done"
    /\ run_result' = "True"
    /\ UNCHANGED <<txParams, artifact, next_task, worker, processed_count,
                   success_count, skipped_count, attempts_made, success_attempt>>
    /\ UNCHANGED <<planVars, srtVars, pipeVars, extractVars, lineVars, splitVars, retryVars, regionVars, uploadVars>>

\* C2: with skip_existing, a chunk whose artifact holds no failure marker and
\* holds the section header is never sent to the remote service: no pool thread
\* is ever inside process_audio_file for a chunk it found with such an artifact.
C2_ValidArtifactNeverSent ==
    \A w \in WorkerIds :
        (skip_existing /\ worker[w].pc = "attempt") =>
            ~(~IsFailureMarker(worker[w].found) /\ ContainsHeader(worker[w].found))

\* C3: at most MAX_RETRIES attempts are made for a chunk in one run, and none
\* after the first attempt that succeeds.
C3_BoundedAttemptsNoneAfterSuccess ==
    \A c \in ChunkIds :
        /\ attempts_made[c] <= 5
        /\ success_attempt[c] # 0 => attempts_made[c] = success_attempt[c]

\* A finished run in which one chunk succeeded at its second attempt and
\* another failed all of its attempts.
C3_Witness ==
    /\ pcRun = "done"
    /\ \E c, d \in ChunkIds :
          /\ success_attempt[c] = 2 /\ attempts_made[c] = 2
          /\ success_attempt[d] = 0 /\ attempts_made[d] = MAX_RETRIES

AllAttemptsFailed(c) == attempts_made[c] = MAX_RETRIES /\ success_attempt[c] = 0

\* C4: when all MAX_RETRIES attempts for a chunk fail its artifact is the
\* failure marker, and the run still processes every chunk and returns True.
C4_ExhaustedChunkLeavesMarkerRunGoesOn ==
    \A c \in ChunkIds :
        AllAttemptsFailed(c) =>
            /\ IsFailureMarker(artifact[c])
            /\ run_result # "False"
            /\ pcRun = "done" =>
                  /\ run_result = "True"
                  /\ processed_count = Len(audio_files)
                  /\ \A d \in 1..Len(audio_files) : artifact[d] # "ABSENT"

\* A finished run in which one chunk failed every attempt while another chunk,
\* taken by the pool after it, was transcribed.
C4_Witness ==
    /\ pcRun = "done"
    /\ run_result = "True"
    /\ AllAttemptsFailed(1)
    /\ success_attempt[2] > 0
    /\ artifact[2] = "OK"
    /\ success_count = 1

\* C34: the failure marker written after the last failed attempt is never
\* accepted as a valid prior result: a run with skip_existing that finds it
\* does not skip the chunk but sends it to the remote service again.
C34_MarkerNeverAccepted ==
    [][/\ \A c \in ChunkIds :
             (attempts_made'[c] = MAX_RETRIES /\ success_attempt'[c] = 0) =>
                 (IsFailureMarker(artifact'[c]) /\ ~is_valid_transcript(artifact'[c]))
       /\ (/\ pcRun = "pool"
           /\ next_task' = next_task + 1
           /\ skip_existing
           /\ IsFailureMarker(artifact[audio_files[next_task]])) =>
               /\ skipped_count' = skipped_count
               /\ \E w \in WorkerIds :
                     /\ worker[w].pc = "idle"
                     /\ worker'[w].pc = "attempt"
                     /\ worker'[w].chunk = audio_files[next_task]]_vars

\* With skip_existing a pool thread is about to send a chunk whose artifact it
\* found to be the failure marker, while another chunk has just failed its
\* last attempt and been left with the marker.
C34_Witness ==
    /\ skip_existing
    /\ \E w \in WorkerIds :
          /\ worker[w].pc = "attempt"
          /\ worker[w].attempt = 0
          /\ IsFailureMarker(worker[w].found)
    /\ \E c \in ChunkIds : AllAttemptsFailed(c) /\ IsFailureMarker(artifact[c])

\* C35: a chunk that the run counted as Success is skipped by the next run
\* with skip_existing if its artifact is left unchanged: the artifact the run
\* leaves for it passes the validity test.
C35_SuccessIsSkippedNextRun ==
    (pcRun = "done" /\ run_result = "True") =>
        \A c \in 1..Len(audio_files) :
            (success_attempt[c] > 0 /\ CountsAsSuccess(artifact[c])) =>
                is_valid_transcript(artifact[c])

Busy == {w \in WorkerIds : worker[w].pc # "idle"}

\* C14: at every moment at most min(max_workers, number of chunk files) chunks
\* are being processed.
C14_ConcurrencyBounded ==
    /\ Cardinality(Busy) <= max_workers
    /\ Cardinality(Busy) <= Len(audio_files)

\* Two chunks in process at once with max_workers = 2; and, in other runs, the
\* bound reached with a single worker for two chunk files.
C14_Witness ==
    /\ Len(audio_files) = 2
    /\ Cardinality(Busy) = max_workers
    /\ max_workers = 1
    /\ next_task = 2

\* C15: run_transcription returns False only if the client could not be
\* initialised, the chunk directory is absent or it holds no chunk file; in
\* every other case it returns True.
C15_FalseOnlyOnStructuralFailure ==
    pcRun = "done" =>
        IF ~client_ok \/ ~dir_exists \/ audio_files = <<>>
        THEN run_result = "False"
        ELSE run_result = "True"

\* C16: when run_transcription has returned True every chunk file has its
\* artifact: the failure marker if all attempts failed, the response text of
\* the successful attempt if one succeeded, and the valid artifact found if the
\* chunk was skipped.
C16_EveryChunkHasArtifact ==
    (pcRun = "done" /\ run_result = "True") =>
        \A c \in 1..Len(audio_files) :
            /\ artifact[c] # "ABSENT"
            /\ AllAttemptsFailed(c) => IsFailureMarker(artifact[c])
            /\ success_attempt[c] > 0 => artifact[c] \in ResponseTexts
            /\ attempts_made[c] = 0 => (skip_existing /\ is_valid_transcript(artifact[c]))
            /\ attempts_made[c] = 0 \/ AllAttemptsFailed(c) \/ success_attempt[c] > 0

\* A finished run over two chunk files that had no artifact: one was
\* transcribed, the other failed every attempt.
C16_Witness ==
    /\ pcRun = "done" /\ run_result = "True"
    /\ Len(audio_files) = 2
    /\ \E c, d \in ChunkIds :
          /\ success_attempt[c] = 1 /\ artifact[c] = "NOHDR"
          /\ AllAttemptsFailed(d) /\ artifact[d] = "MARKER"

AdmissibleCutSets(required, T, maxLen) ==
    {S \in SUBSET (1..(T - 1)) :
        /\ required \subseteq S
        /\ \A a \in S \cup {0} :
              \E b \in S \cup {T} : a < b /\ b - a <= maxLen}

\* The smallest number of chunks an admissible cut set gives.
FewestChunks(required, T, maxLen) ==
    LET sizes == {Cardinality(S) + 1 : S \in AdmissibleCutSets(required, T, maxLen)}
    IN  CHOOSE n \in sizes : \A m \in sizes : n <= m

\* The silence midpoints that lie inside (0, T).
MidpointsInside ==
    {m \in {silence_midpoint(silence_points_sec[i]) : i \in DOMAIN silence_points_sec} :
        0 < m /\ m < audio_length_sec}

MidpointsAscending ==
    \A i, j \in DOMAIN silence_points_sec :
        i < j => silence_midpoint(silence_points_sec[i])
                    <= silence_midpoint(silence_points_sec[j])

\* C24 as stated: among all sets of cut points that keep every chunk at most
\* maxLen long, the planner's has the fewest chunks.
C24_FewestChunksOfAll ==
    pcPlan = "done" =>
        Len(final_split_points) + 1
            = FewestChunks({}, audio_length_sec, max_chunk_length_sec)

\* C24, amended: when the silence midpoints come in ascending order, the
\* planner's cut set has the fewest chunks among the sets of cut points that
\* contain every silence midpoint inside (0, T) and keep every chunk at most
\* maxLen long.
C24_FewestChunksKeepingMidpoints ==
    (pcPlan = "done" /\ MidpointsAscending) =>
        Len(final_split_points) + 1
            = FewestChunks(MidpointsInside, audio_length_sec, max_chunk_length_sec)

\* A call with ascending midpoints, one of them inside (0, T), that needed a
\* forced cut and returns more chunks than the fewest possible without the
\* midpoints.
C24_Witness ==
    /\ pcPlan = "done"
    /\ MidpointsAscending
    /\ MidpointsInside # {}
    /\ Len(final_split_points) > Cardinality(MidpointsInside)
    /\ Len(final_split_points) + 1
          > FewestChunks({}, audio_length_sec, max_chunk_length_sec)

\* The number of forced cuts strictly between a chunk start and its target:
\* the k >= 1 with start + k * maxLen < target.
ForcedCutCount(start, target, maxLen) ==
    IF target - start <= maxLen THEN 0 ELSE (target - start - 1) \div maxLen

\* The walk is, stretch by stretch, the forced cuts that lie strictly before
\* the stretch's target followed by the silence midpoint itself.
RECURSIVE WalkAsClaimed(_, _, _, _, _)
WalkAsClaimed(walk, silences, start, T, maxLen) ==
    IF silences = <<>>
    THEN /\ Len(walk) = ForcedCutCount(start, T, maxLen)
         /\ \A k \in DOMAIN walk : walk[k] = start + k * maxLen /\ walk[k] < T
    ELSE LET mid == silence_midpoint(Head(silences))
             n == ForcedCutCount(start, mid, maxLen)
         IN  /\ Len(walk) >= n + 1
             /\ \A k \in 1..n : walk[k] = start + k * maxLen /\ walk[k] < mid
             /\ walk[n + 1] = mid
             /\ WalkAsClaimed(SubSeq(walk, n + 2, Len(walk)), Tail(silences), mid, T, maxLen)

\* C25: a forced cut is inserted only while the distance from the current
\* chunk start to the next silence midpoint (or to T after the last interval)
\* is strictly greater than maxLen; at a distance of exactly maxLen no forced
\* cut is added and the midpoint itself is the cut.
C25_ForcedCutsOnlyBeyondMaxLen ==
    pcPlan = "done" =>
        WalkAsClaimed(split_points, silence_points_sec, 0, audio_length_sec,
                      max_chunk_length_sec)

\* A call whose first silence midpoint lies exactly maxLen after 0 and whose
\* end lies exactly maxLen after that midpoint: the midpoint is the only point
\* the walk appended and the only cut.
C25_Witness ==
    /\ pcPlan = "done"
    /\ Len(silence_points_sec) = 1
    /\ silence_midpoint(silence_points_sec[1]) = max_chunk_length_sec
    /\ audio_length_sec = 2 * max_chunk_length_sec
    /\ split_points = <<max_chunk_length_sec>>
    /\ final_split_points = <<max_chunk_length_sec>>

-----------------------------------------------------------------------------
(***************************************************************************)
(* EXPORTER (split_audio.py, split_audio).  Times are in the planner's     *)
(* half grid units, and one half grid unit stands for 0.1 s, the length    *)
(* under which line 139 skips a fragment.                                  *)
(***************************************************************************)

\* Bound: at most this many silence intervals are handed to the exporter.
MaxSplitSilences == 1

\* get_audio_duration_ffmpeg returned None.
NoDuration == 0 - 1

\* The 0.1 of line 139, in half grid units.
MinFragment == 1

\* Line 139: the fragment from start_time_sec to end_time_sec is skipped.
skipped_fragment(start, end) == end <= start + MinFragment

\* Line 142: the chunk number in the file name is the loop index plus one.
ExportedChunk(number, start, end) == [number |-> number, start |-> start, end |-> end]

\* Line 183 run only after an export that went through.
start_after_export_failed(start, end) == start

\* Line 183, after the try statement: start_time_sec = end_time_sec whether
\* the export went through or not.
start_after_export(start, end) == end

SplitInit ==
    /\ total_length_sec \in {NoDuration} \cup (1..MaxAudioLen)
    /\ detected_silences \in SeqsUpTo(SilenceIntervals, MaxSplitSilences)
    /\ chunk_max_length_sec \in 1..MaxChunkLen
    /\ split_points_sec = <<>>
    /\ split_index = 1
    /\ start_time_sec = 0
    /\ chunk_files = <<>>
    /\ pcSplit = "probe"
    /\ split_result = "none"

SplitIdle ==
    /\ total_length_sec = 0
    /\ detected_silences = <<>>
    /\ chunk_max_length_sec = 0
    /\ split_points_sec = <<>>
    /\ split_index = 1
    /\ start_time_sec = 0
    /\ chunk_files = <<>>
    /\ pcSplit = "idle"
    /\ split_result = "none"

\* Lines 118-132: without a duration split_audio returns no chunk; otherwise
\* the cut points are planned and the total length is appended to them.
SplitPlan ==
    /\ pcSplit = "probe"
    /\ IF total_length_sec = NoDuration
       THEN /\ pcSplit' = "done"
            /\ split_result' = "empty"
            /\ UNCHANGED split_points_sec
       ELSE /\ pcSplit' = "export"
            /\ split_points_sec' =
                  Append(find_optimal_split_points_sec(total_length_sec, detected_silences,
                                                       chunk_max_length_sec),
                         total_length_sec)
            /\ UNCHANGED split_result
    /\ UNCHANGED <<total_length_sec, detected_silences, chunk_max_length_sec,
                   split_index, start_time_sec, chunk_files>>
    /\ UNCHANGED <<planVars, txVars, srtVars, pipeVars, extractVars, lineVars, retryVars, regionVars, uploadVars>>

\* Lines 138-140: a fragment of 0.1 s or less is skipped by 'continue', which
\* leaves start_time_sec where it was.
ExportSkip ==
    /\ pcSplit = "export"
    /\ split_index <= Len(split_points_sec)
    /\ skipped_fragment(start_time_sec, split_points_sec[split_index])
    /\ split_index' = split_index + 1
    /\ UNCHANGED <<total_length_sec, detected_silences, chunk_max_length_sec,
                   split_points_sec, start_time_sec, chunk_files, pcSplit, split_result>>
    /\ UNCHANGED <<planVars, txVars, srtVars, pipeVars, extractVars, lineVars, retryVars, regionVars, uploadVars>>

\* Lines 142-173 and 183: ffmpeg writes the chunk from start_time_sec to
\* end_time_sec and the next chunk starts at end_time_sec.
ExportChunk ==
    /\ pcSplit = "export"
    /\ split_index <= Len(split_points_sec)
    /\ ~skipped_fragment(start_time_sec, split_points_sec[split_index])
    /\ chunk_files' = Append(chunk_files,
                             ExportedChunk(split_index, start_time_sec,
                                           split_points_sec[split_index]))
    /\ start_time_sec' = split_points_sec[split_index]
    /\ split_index' = split_index + 1
    /\ UNCHANGED <<total_length_sec, detected_silences, chunk_max_length_sec,
                   split_points_sec, pcSplit, split_result>>
    /\ UNCHANGED <<planVars, txVars, srtVars, pipeVars, extractVars, lineVars, retryVars, regionVars, uploadVars>>

\* Lines 174-183: the export fails (ffmpeg error, time-out, empty file); the
\* chunk is not listed and the next chunk starts at end_time_sec.
ExportFails ==
    /\ pcSplit = "export"
    /\ split_index <= Len(split_points_sec)
    /\ ~skipped_fragment(start_time_sec, split_points_sec[split_index])
    /\ start_time_sec' = start_after_export(start_time_sec, split_points_sec[split_index])
    /\ split_index' = split_index + 1
    /\ UNCHANGED <<total_length_sec, detected_silences, chunk_max_length_sec,
                   split_points_sec, chunk_files, pcSplit, split_result>>
    /\ UNCHANGED <<planVars, txVars, srtVars, pipeVars, extractVars, lineVars, retryVars, regionVars, uploadVars>>

\* Lines 185-194: the list of exported chunks is returned; an empty list is
\* the failure value.
SplitReturn ==
    /\ pcSplit = "export"
    /\ split_index > Len(split_points_sec)
    /\ pcSplit' = "done"
    /\ split_result' = IF chunk_files = <<>> THEN "empty" ELSE "chunks"
    /\ UNCHANGED <<total_length_sec, detected_silences, chunk_max_length_sec,
                   split_points_sec, split_index, start_time_sec, chunk_files>>
    /\ UNCHANGED <<planVars, txVars, srtVars, pipeVars, extractVars, lineVars, retryVars, regionVars, uploadVars>>

\* C20: every chunk file split_audio exports spans at most maxLen, also when a
\* planned fragment of 0.1 s or less between two cut points was skipped by the
\* exporter.
C20_ExportedChunkWithinMaxLen ==
    \A k \in DOMAIN chunk_files :
        chunk_files[k].end - chunk_files[k].start <= chunk_max_length_sec

\* The chunks the loop of lines 138-183 exports from cut point i on when no
\* export fails.
RECURSIVE ExportLoop(_, _, _)
ExportLoop(points, i, start) ==
    IF i > Len(points) THEN {}
    ELSE IF skipped_fragment(start, points[i]) THEN ExportLoop(points, i + 1, start)
    ELSE {ExportedChunk(i, start, points[i])} \cup ExportLoop(points, i + 1, points[i])

\* The fragments the loop has tried to export and that are not in the list.
FailedExports ==
    {c \in ExportLoop(split_points_sec, 1, 0) :
        /\ c.number < split_index
        /\ \A k \in DOMAIN chunk_files : chunk_files[k].number # c.number}

\* C33: a chunk whose export fails is left out of the result and every other
\* chunk is exported with the start and end times it has when no export
\* fails; split_audio returns an empty list exactly when no chunk was
\* exported or the duration probe failed.
C33_FailedExportOmittedOthersAsPlanned ==
    /\ \A k \in DOMAIN chunk_files :
          chunk_files[k] \in ExportLoop(split_points_sec, 1, 0)
    /\ \A k \in DOMAIN chunk_files :
          \A j \in DOMAIN chunk_files : j < k => chunk_files[j].number < chunk_files[k].number
    /\ pcSplit = "done" =>
          ((split_result = "empty") <=> (total_length_sec = NoDuration \/ chunk_files = <<>>))

\* The export of one chunk failed and the chunk after it was exported,
\* starting where the failed one ends.
C33_Witness ==
    /\ pcSplit = "done"
    /\ split_result = "chunks"
    /\ \E c \in FailedExports :
          \E k \in DOMAIN chunk_files :
              chunk_files[k].number > c.number /\ chunk_files[k].start = c.end

-----------------------------------------------------------------------------
(***************************************************************************)
(* RETRY LOOP (transcript.py, process_audio_file, lines 123-207).  Delays  *)
(* are in whole seconds; random.uniform(a, b) is any whole number of       *)
(* seconds from a to b, both ends included.                                *)
(***************************************************************************)

INITIAL_DELAY == 3

RECURSIVE Pow(_, _)
Pow(base, n) == IF n = 0 THEN 1 ELSE base * Pow(base, n - 1)

\* What the handler reads in str(e): whether it holds one of "503",
\* "overload", "unavailable", and whether it holds one of "504", "deadline",
\* "timeout".
ErrorTexts == [overload : BOOLEAN, timeout : BOOLEAN]

\* Lines 188-196: is_overload is tested before is_timeout.
FailureClass(error) ==
    IF error.overload THEN "overload"
    ELSE IF error.timeout THEN "timeout"
    ELSE "other"

\* random.uniform(2, 6), random.uniform(1, 4), random.uniform(0, 2).
Jitter(class) ==
    IF class = "overload" THEN 2..6
    ELSE IF class = "timeout" THEN 1..4
    ELSE 0..2

\* The delay without its exponential factor.
retry_delay_flat(class, attempt, jitter) == INITIAL_DELAY + jitter

\* Lines 191-199: the delay slept after failed attempt 'attempt'.
retry_delay(class, attempt, jitter) ==
    IF class = "overload"
    THEN INITIAL_DELAY * Pow(3, attempt) + jitter
    ELSE INITIAL_DELAY * Pow(2, attempt) + jitter

RetryInit ==
    /\ retry_attempt = 0
    /\ retry_waits = <<>>
    /\ pcRetry = "attempt"
    /\ retry_result = "none"

RetryIdle ==
    /\ retry_attempt = 0
    /\ retry_waits = <<>>
    /\ pcRetry = "idle"
    /\ retry_result = "none"

\* Lines 124-173: the attempt succeeds and process_audio_file returns the
\* transcript.
RetrySucceeds ==
    /\ pcRetry = "attempt"
    /\ pcRetry' = "done"
    /\ retry_result' = "transcript"
    /\ UNCHANGED <<retry_attempt, retry_waits>>
    /\ UNCHANGED <<planVars, txVars, srtVars, pipeVars, extractVars, lineVars, splitVars, regionVars, uploadVars>>

\* Lines 175-200: a failed attempt that is not the last one is followed by
\* time.sleep(delay) and the next attempt.
RetryFailsAndWaits ==
    /\ pcRetry = "attempt"
    /\ retry_attempt < MAX_RETRIES - 1
    /\ \E error \in ErrorTexts : \E jitter \in Jitter(FailureClass(error)) :
          retry_waits' = Append(retry_waits,
                                [attempt |-> retry_attempt,
                                 class |-> FailureClass(error),
                                 delay |-> retry_delay(FailureClass(error),
                                                       retry_attempt, jitter)])
    /\ retry_attempt' = retry_attempt + 1
    /\ UNCHANGED <<pcRetry, retry_result>>
    /\ UNCHANGED <<planVars, txVars, srtVars, pipeVars, extractVars, lineVars, splitVars, regionVars, uploadVars>>

\* Lines 201-206: the last attempt fails; the marker is written and
\* process_audio_file returns "" without sleeping.
RetryGivesUp ==
    /\ pcRetry = "attempt"
    /\ retry_attempt = MAX_RETRIES - 1
    /\ pcRetry' = "done"
    /\ retry_result' = "empty"
    /\ UNCHANGED <<retry_attempt, retry_waits>>
    /\ UNCHANGED <<planVars, txVars, srtVars, pipeVars, extractVars, lineVars, splitVars, regionVars, uploadVars>>

\* C28: the wait after failed attempt a (0-based, a < MAX_RETRIES - 1) is
\* INITIAL_DELAY * 3^a plus 2 to 6 s for an overload failure, INITIAL_DELAY *
\* 2^a plus 1 to 4 s for a timeout failure and INITIAL_DELAY * 2^a plus 0 to
\* 2 s otherwise; among the waits of one failure class a later wait is never
\* shorter than an earlier one; the k-th wait follows attempt k - 1, and none
\* follows the last attempt.
C28_BackoffGrowsByClass ==
    /\ \A k \in DOMAIN retry_waits :
          LET w == retry_waits[k]
              grown == INITIAL_DELAY * Pow(IF w.class = "overload" THEN 3 ELSE 2, w.attempt)
          IN  /\ w.attempt = k - 1
              /\ w.attempt < MAX_RETRIES - 1
              /\ w.class = "overload" => (grown + 2 <= w.delay /\ w.delay <= grown + 6)
              /\ w.class = "timeout" => (grown + 1 <= w.delay /\ w.delay <= grown + 4)
              /\ w.class = "other" => (grown <= w.delay /\ w.delay <= grown + 2)
    /\ \A i, j \in DOMAIN retry_waits :
          (i < j /\ retry_waits[i].class = retry_waits[j].class)
              => retry_waits[i].delay <= retry_waits[j].delay
    /\ pcRetry = "done" => Len(retry_waits) = retry_attempt

\* All five attempts failed with a timeout: the first wait was the longest
\* its attempt allows (7 s), the second the shortest (7 s), and no wait
\* followed the fifth attempt.
C28_Witness ==
    /\ pcRetry = "done" /\ retry_result = "empty"
    /\ Len(retry_waits) = MAX_RETRIES - 1
    /\ \A k \in DOMAIN retry_waits : retry_waits[k].class = "timeout"
    /\ retry_waits[1].delay = 7
    /\ retry_waits[2].delay = 7

-----------------------------------------------------------------------------
(***************************************************************************)
(* REGION ROTATION (transcript.py, get_next_region and the client a        *)
(* thread uses in process_audio_file with use_vertex set).                 *)
(***************************************************************************)

\* Bound: each pool thread processes at most this many chunks.
MaxRegionChunks == 2

\* Lines 20-28.
VERTEX_REGIONS ==
    <<"us-central1", "us-east4", "us-west1", "europe-west1", "europe-west4",
      "asia-northeast1", "asia-southeast1">>

\* current_region = None
NoRegion == "None"

\* Line 80: location = region or VERTEX_REGIONS[0].
location(region) == IF region = NoRegion THEN VERTEX_REGIONS[1] ELSE region

\* The lock of line 71 not taken.
lock_held_ignored(holder) == FALSE

\* Line 71: 'with _region_lock' waits while another thread holds the lock.
lock_held(holder) == holder # 0

\* Line 73.
next_region_index(index) == (index + 1) % Len(VERTEX_REGIONS)

\* A pool thread before its first chunk.
RegionThreadStart ==
    [pc |-> "attempt", attempt |-> 0, chunks |-> 1, current_region |-> NoRegion,
     used |-> NoRegion, previous |-> NoRegion, region |-> NoRegion]

RegionInit ==
    /\ current_region_index = 0
    /\ region_lock = 0
    /\ region_calls = <<>>
    /\ region_worker = [w \in WorkerIds |-> RegionThreadStart]

RegionIdle ==
    /\ current_region_index = 0
    /\ region_lock = 0
    /\ region_calls = <<>>
    /\ region_worker = <<>>

\* Lines 127-132, attempt 0 and the attempts after a region was drawn: the
\* client of the attempt is the one of current_region.
AttemptWithClient(w) ==
    /\ region_worker[w].pc = "attempt"
    /\ region_worker[w].attempt = 0 \/ region_worker[w].current_region # NoRegion
    /\ region_worker' = [region_worker EXCEPT
            ![w].pc = "running",
            ![w].previous = region_worker[w].used,
            ![w].used = location(region_worker[w].current_region)]
    /\ UNCHANGED <<current_region_index, region_lock, region_calls>>
    /\ UNCHANGED <<planVars, txVars, srtVars, pipeVars, extractVars, lineVars, splitVars,
                   retryVars, uploadVars>>

\* Lines 127-128 and 71: a retry calls get_next_region and enters the lock.
RegionLock(w) ==
    /\ region_worker[w].pc = "attempt"
    /\ region_worker[w].attempt > 0 /\ region_worker[w].current_region = NoRegion
    /\ ~lock_held(region_lock)
    /\ region_lock' = w
    /\ region_worker' = [region_worker EXCEPT ![w].pc = "read"]
    /\ UNCHANGED <<current_region_index, region_calls>>
    /\ UNCHANGED <<planVars, txVars, srtVars, pipeVars, extractVars, lineVars, splitVars,
                   retryVars, uploadVars>>

\* Line 72: region = VERTEX_REGIONS[_current_region_index].
RegionRead(w) ==
    /\ region_worker[w].pc = "read"
    /\ region_worker' = [region_worker EXCEPT
            ![w].pc = "advance",
            ![w].region = VERTEX_REGIONS[current_region_index + 1]]
    /\ region_calls' = Append(region_calls, VERTEX_REGIONS[current_region_index + 1])
    /\ UNCHANGED <<current_region_index, region_lock>>
    /\ UNCHANGED <<planVars, txVars, srtVars, pipeVars, extractVars, lineVars, splitVars,
                   retryVars, uploadVars>>

\* Lines 73-74: the index is advanced, the lock released and the region
\* returned to line 128.
RegionAdvance(w) ==
    /\ region_worker[w].pc = "advance"
    /\ current_region_index' = next_region_index(current_region_index)
    /\ region_lock' = IF region_lock = w THEN 0 ELSE region_lock
    /\ region_worker' = [region_worker EXCEPT
            ![w].pc = "attempt",
            ![w].current_region = region_worker[w].region]
    /\ UNCHANGED region_calls
    /\ UNCHANGED <<planVars, txVars, srtVars, pipeVars, extractVars, lineVars, splitVars,
                   retryVars, uploadVars>>

\* Lines 175-200: the attempt fails and another one follows, for which
\* current_region is drawn anew.
AttemptFailsRetry(w) ==
    /\ region_worker[w].pc = "running"
    /\ region_worker[w].attempt < MAX_RETRIES - 1
    /\ region_worker' = [region_worker EXCEPT
            ![w].pc = "attempt",
            ![w].attempt = @ + 1,
            ![w].current_region = NoRegion]
    /\ UNCHANGED <<current_region_index, region_lock, region_calls>>
    /\ UNCHANGED <<planVars, txVars, srtVars, pipeVars, extractVars, lineVars, splitVars,
                   retryVars, uploadVars>>

\* Lines 160-173 and 201-206: process_audio_file returns, after a success or
\* after the last failed attempt.
ChunkDone(w) ==
    /\ region_worker[w].pc = "running"
    /\ region_worker' = [region_worker EXCEPT ![w].pc = "idle"]
    /\ UNCHANGED <<current_region_index, region_lock, region_calls>>
    /\ UNCHANGED <<planVars, txVars, srtVars, pipeVars, extractVars, lineVars, splitVars,
                   retryVars, uploadVars>>

\* Lines 115-121: the thread starts process_audio_file for its next chunk,
\* with current_region None again and no attempt of that chunk made yet.
NextChunk(w) ==
    /\ region_worker[w].pc = "idle"
    /\ region_worker[w].chunks < MaxRegionChunks
    /\ region_worker' = [region_worker EXCEPT
            ![w].pc = "attempt",
            ![w].attempt = 0,
            ![w].chunks = @ + 1,
            ![w].current_region = NoRegion,
            ![w].used = NoRegion,
            ![w].previous = NoRegion]
    /\ UNCHANGED <<current_region_index, region_lock, region_calls>>
    /\ UNCHANGED <<planVars, txVars, srtVars, pipeVars, extractVars, lineVars, splitVars,
                   retryVars, uploadVars>>

\* C29: the k-th call of get_next_region overall returns entry (k - 1) mod 7
\* of the list, under any interleaving of the callers, and the shared index
\* stays within 0..6.
C29_RegionsInCyclicOrder ==
    /\ \A k \in DOMAIN region_calls :
          region_calls[k] = VERTEX_REGIONS[((k - 1) % 7) + 1]
    /\ current_region_index \in 0..6

\* Nine calls have been made, by both threads: the list has been handed out
\* once around and the eighth and ninth calls returned its first two entries
\* again.
C29_Witness ==
    /\ Len(region_calls) = 9
    /\ region_calls[8] = "us-central1"
    /\ region_calls[9] = "us-east4"
    /\ \A w \in WorkerIds : region_worker[w].attempt > 0 \/ region_worker[w].chunks > 1

\* C30: in multi-region mode the endpoint a retry attempt of a chunk uses
\* differs from the endpoint the chunk's preceding attempt used, the first
\* retry after the attempt on the default endpoint included.
C30_RetryOnAnotherEndpoint ==
    \A w \in DOMAIN region_worker :
        (region_worker[w].pc = "running" /\ region_worker[w].attempt > 0)
            => region_worker[w].used # region_worker[w].previous

-----------------------------------------------------------------------------
(***************************************************************************)
(* REMOTE UPLOAD OF ONE CHUNK (transcript.py, process_audio_file lines     *)
(* 123-207: upload, wait while PROCESSING, generate, delete).              *)
(***************************************************************************)

\* uploaded_file = None (line 124)
NoFile == "None"

\* uploaded_file.state.name as the service reports it.
FileStates == {"PROCESSING", "ACTIVE", "FAILED"}

\* Nothing has happened yet in the attempt.
FreshAttempt ==
    [staged |-> FALSE, failed |-> FALSE, delete_tried |-> FALSE, delete_raised |-> FALSE]

\* The cleanup of lines 180-184 left out.
cleanup_on_error_skipped(file) == FALSE

\* Line 180: if uploaded_file.
cleanup_on_error(file) == file # NoFile

\* Lines 168-171 and 181-184: 'except Exception: pass' around the delete; the
\* attempt goes on as it would have without the error.
after_delete(raised, outcome) == outcome

\* The attempt's record once it has ended.
Ended(rec, attempt, how) ==
    [attempt |-> attempt, staged |-> rec.staged, failed |-> rec.failed,
     delete_tried |-> rec.delete_tried, delete_raised |-> rec.delete_raised,
     ended |-> how]

UploadInit ==
    /\ upload_attempt = 0
    /\ uploaded_file = NoFile
    /\ server_state = NoFile
    /\ poll_tick = 0
    /\ this_attempt = FreshAttempt
    /\ attempt_log = <<>>
    /\ pcUpload = "upload"
    /\ upload_result = "none"

UploadIdle ==
    /\ upload_attempt = 0
    /\ uploaded_file = NoFile
    /\ server_state = NoFile
    /\ poll_tick = 0
    /\ this_attempt = <<>>
    /\ attempt_log = <<>>
    /\ pcUpload = "idle"
    /\ upload_result = "none"

\* Lines 127-137: the file is staged and the handle holds the state the
\* service reports.
UploadStaged ==
    /\ pcUpload = "upload"
    /\ \E st \in FileStates :
          /\ server_state' = st
          /\ uploaded_file' = st
    /\ this_attempt' = [this_attempt EXCEPT !.staged = TRUE]
    /\ pcUpload' = "wait"
    /\ UNCHANGED <<upload_attempt, poll_tick, attempt_log, upload_result>>
    /\ UNCHANGED <<planVars, txVars, srtVars, pipeVars, extractVars, lineVars, splitVars,
                   retryVars, regionVars>>

\* Lines 127-137: get_next_region, get_client or the upload raises; there
\* is no handle.
UploadRaises ==
    /\ pcUpload = "upload"
    /\ this_attempt' = [this_attempt EXCEPT !.failed = TRUE]
    /\ pcUpload' = "except"
    /\ UNCHANGED <<upload_attempt, uploaded_file, server_state, poll_tick, attempt_log,
                   upload_result>>
    /\ UNCHANGED <<planVars, txVars, srtVars, pipeVars, extractVars, lineVars, splitVars,
                   retryVars, regionVars>>

\* The service finishes processing the staged file, at a time of its own.
ServerProcesses ==
    /\ server_state = "PROCESSING"
    /\ server_state' \in {"ACTIVE", "FAILED"}
    /\ UNCHANGED <<upload_attempt, uploaded_file, poll_tick, this_attempt, attempt_log,
                   pcUpload, upload_result>>
    /\ UNCHANGED <<planVars, txVars, srtVars, pipeVars, extractVars, lineVars, splitVars,
                   retryVars, regionVars>>

\* Lines 140-142: while the handle says PROCESSING, sleep two seconds and
\* fetch the file again; the fetch may raise, and the handle is kept then.
PollProcessing ==
    /\ pcUpload = "wait"
    /\ uploaded_file = "PROCESSING"
    /\ poll_tick' = 1 - poll_tick
    /\ \/ /\ uploaded_file' = server_state
          /\ UNCHANGED <<this_attempt, pcUpload>>
       \/ /\ this_attempt' = [this_attempt EXCEPT !.failed = TRUE]
          /\ pcUpload' = "except"
          /\ UNCHANGED uploaded_file
    /\ UNCHANGED <<upload_attempt, server_state, attempt_log, upload_result>>
    /\ UNCHANGED <<planVars, txVars, srtVars, pipeVars, extractVars, lineVars, splitVars,
                   retryVars, regionVars>>

\* Lines 140 and 144-145: the loop is left; FAILED raises ValueError.
WaitOver ==
    /\ pcUpload = "wait"
    /\ uploaded_file # "PROCESSING"
    /\ IF uploaded_file = "FAILED"
       THEN /\ this_attempt' = [this_attempt EXCEPT !.failed = TRUE]
            /\ pcUpload' = "except"
       ELSE /\ pcUpload' = "generate"
            /\ UNCHANGED this_attempt
    /\ UNCHANGED <<upload_attempt, uploaded_file, server_state, poll_tick, attempt_log,
                   upload_result>>
    /\ UNCHANGED <<planVars, txVars, srtVars, pipeVars, extractVars, lineVars, splitVars,
                   retryVars, regionVars>>

\* Lines 151-165: the response arrives and the transcript is written.
GenerateWritten ==
    /\ pcUpload = "generate"
    /\ pcUpload' = "delete"
    /\ UNCHANGED <<upload_attempt, uploaded_file, server_state, poll_tick, this_attempt,
                   attempt_log, upload_result>>
    /\ UNCHANGED <<planVars, txVars, srtVars, pipeVars, extractVars, lineVars, splitVars,
                   retryVars, regionVars>>

\* Lines 151-163: generate_content, response.text or the write raises.
GenerateRaises ==
    /\ pcUpload = "generate"
    /\ this_attempt' = [this_attempt EXCEPT !.failed = TRUE]
    /\ pcUpload' = "except"
    /\ UNCHANGED <<upload_attempt, uploaded_file, server_state, poll_tick, attempt_log,
                   upload_result>>
    /\ UNCHANGED <<planVars, txVars, srtVars, pipeVars, extractVars, lineVars, splitVars,
                   retryVars, regionVars>>

\* Lines 167-173: the staged file is deleted, an error of the delete is
\* passed over, and the transcript is returned.
DeleteAndReturn ==
    /\ pcUpload = "delete"
    /\ \E raised \in BOOLEAN :
          /\ attempt_log' = Append(attempt_log,
                Ended([this_attempt EXCEPT !.delete_tried = TRUE, !.delete_raised = raised],
                      upload_attempt, after_delete(raised, "transcript")))
          /\ upload_result' = after_delete(raised, "transcript")
          /\ server_state' = IF raised THEN server_state ELSE NoFile
    /\ pcUpload' = "returned"
    /\ UNCHANGED <<upload_attempt, uploaded_file, poll_tick, this_attempt>>
    /\ UNCHANGED <<planVars, txVars, srtVars, pipeVars, extractVars, lineVars, splitVars,
                   retryVars, regionVars>>

\* How the handler of lines 186-206 ends the attempt.
AfterFailure(attempt) == IF attempt < MAX_RETRIES - 1 THEN "retry" ELSE "marker"

\* Lines 175-206: the handler deletes the staged file if there is a handle,
\* passing over an error of the delete; then it sleeps and the next attempt
\* begins with uploaded_file = None, or after the last attempt the marker is
\* written and "" returned.
ExceptHandler ==
    /\ pcUpload = "except"
    /\ \E raised \in BOOLEAN :
          LET tried == cleanup_on_error(uploaded_file)
              rec == [this_attempt EXCEPT !.delete_tried = tried,
                                          !.delete_raised = tried /\ raised]
              how == after_delete(tried /\ raised, AfterFailure(upload_attempt))
          IN  /\ attempt_log' = Append(attempt_log, Ended(rec, upload_attempt, how))
              /\ server_state' = IF tried /\ ~raised THEN NoFile ELSE server_state
              /\ IF how = "retry"
                 THEN /\ upload_attempt' = upload_attempt + 1
                      /\ uploaded_file' = NoFile
                      /\ this_attempt' = FreshAttempt
                      /\ pcUpload' = "upload"
                      /\ UNCHANGED upload_result
                 ELSE /\ upload_result' = "empty"
                      /\ pcUpload' = "returned"
                      /\ UNCHANGED <<upload_attempt, uploaded_file, this_attempt>>
    /\ UNCHANGED poll_tick
    /\ UNCHANGED <<planVars, txVars, srtVars, pipeVars, extractVars, lineVars, splitVars,
                   retryVars, regionVars>>

\* C31: every staged upload has had a delete attempt by the time the attempt
\* that created it ends, after a success and after a failure, and an error
\* of the delete leaves the attempt's outcome what it would have been.
C31_StagedUploadDeleteAttempted ==
    \A i \in DOMAIN attempt_log :
        LET rec == attempt_log[i]
        IN  /\ rec.staged => rec.delete_tried
            /\ rec.ended = IF ~rec.failed THEN "transcript" ELSE AfterFailure(rec.attempt)

\* A failed attempt whose staged file was deleted, followed by a successful
\* one whose delete raised and which still returned the transcript.
C31_Witness ==
    /\ Len(attempt_log) = 2
    /\ attempt_log[1].staged /\ attempt_log[1].failed /\ attempt_log[1].delete_tried
    /\ attempt_log[2].staged /\ attempt_log[2].delete_raised
    /\ attempt_log[2].ended = "transcript"
    /\ upload_result = "transcript"

\* C32: processing of one chunk always terminates, also when the uploaded
\* file's state at the service remains PROCESSING.
C32_ProcessAudioFileReturns == <>(pcUpload = "returned")

-----------------------------------------------------------------------------
(***************************************************************************)
(* CUE EXTRACTOR AND SUBTITLE SYNTHESIZER (combine_transcripts.py).        *)
(* Times are in ticks of 1/7000 s, so that 1 ms, the 0.05 s gap and a      *)
(* character's 1/14 s are whole numbers of ticks.                          *)
(* An artifact's text is the sequence of its lines, each line kept as what *)
(* extract_segments reads from it:                                         *)
(*   [kind |-> "hdr", sec |-> h, form |-> f]   the header line of the      *)
(*        section h ("timestamped translation", "timestamped transcript",  *)
(*        "translation" or "transcript"), written plainly ("Translation:") *)
(*        or as a Markdown heading ("## Translation:")                     *)
(*   [kind |-> "cue", start |-> t, text |-> n]   a line the pattern of     *)
(*        line 150 matches, with a timestamp parse_timestamp_sec reads as  *)
(*        t and a non-empty trailing text of n characters                  *)
(*   [kind |-> "badts"]   a line whose timestamp is malformed or missing   *)
(*        (the pattern does not match it, or the parse fails)              *)
(***************************************************************************)
TicksPerSec == 14 * 500
TicksPerMs == TicksPerSec \div 1000

MIN_DURATION_SEC == (3 * TicksPerSec) \div 2
MAX_DURATION_SEC == 7 * TicksPerSec
CHARS_PER_SECOND == 14
GAP_BETWEEN_SUBS == TicksPerSec \div 20

\* Bound of the texts: an artifact holds at most MaxLines lines.  The number of
\* chunk files ranges over 0..MaxChunks.
MaxLines == 3
\* Text lengths over which the duration rule is evaluated.
MaxTextLen == 120

Headers == {"timestamped translation", "timestamped transcript",
            "translation", "transcript"}

\* The cue lines of the texts: a one-character cue at 0.5 s and a
\* hundred-character cue at 1 s.
CueLines == {[kind |-> "cue", start |-> TicksPerSec \div 2, text |-> 1],
             [kind |-> "cue", start |-> TicksPerSec, text |-> 100]}

HeaderForms == {"plain", "hash"}

Lines == {[kind |-> "hdr", sec |-> h, form |-> f] : h \in Headers, f \in HeaderForms}
            \cup CueLines \cup {[kind |-> "badts"]}

Texts == SeqsUpTo(Lines, MaxLines)

\* The probed durations: 0.0 (the probe failed, line 50) and 10 s.
Durations == {0, 10 * TicksPerSec}
FirstChunkOffsets == {0 - 2 * TicksPerSec, 0}
ContentChoices == {"translation", "transcript", "both"}

\* The words of a section title, in lower case, as tokens.
HeaderWords(h) ==
    IF h = "timestamped translation" THEN <<"timestamped", " ", "translation">>
    ELSE IF h = "timestamped transcript" THEN <<"timestamped", " ", "transcript">>
    ELSE <<h>>

\* A line as it stands in the artifact, as tokens, in lower case:
\* "translation:" or "## translation:" for a header, a bracketed timestamp
\* and a text for a cue line, a text for any other line.
RawLine(line) ==
    IF line.kind = "hdr"
    THEN (IF line.form = "hash" THEN <<"#", "#", " ">> ELSE <<>>)
            \o HeaderWords(line.sec) \o <<":">>
    ELSE IF line.kind = "cue" THEN <<"[", "ts", "]", " ", "text">>
    ELSE <<"text">>

\* str.strip(): the blanks at both ends are removed.
RECURSIVE StripLeft(_)
StripLeft(q) == IF q # <<>> /\ Head(q) = " " THEN StripLeft(Tail(q)) ELSE q

RECURSIVE StripRight(_)
StripRight(q) ==
    IF q # <<>> /\ q[Len(q)] = " " THEN StripRight(SubSeq(q, 1, Len(q) - 1)) ELSE q

Strip(q) == StripRight(StripLeft(q))

\* .replace('*', '').replace('#', '').replace('_', '').replace(':', '')
RemoveMarks(q) == SelectSeq(q, LAMBDA t : t \notin {"*", "#", "_", ":"})

\* Line 89: the line is stripped first and the marks are removed after.
clean_line(line) == RemoveMarks(Strip(RawLine(line)))

\* sub in q
Contains(q, sub) ==
    \E i \in 0..(Len(q) - Len(sub)) : SubSeq(q, i + 1, i + Len(sub)) = sub

\* Line 111: "target in clean_line and len(clean_line) < 50"; every line of
\* the texts is shorter than 50 characters.
IsHeaderLine(line, target) == Contains(clean_line(line), HeaderWords(target))

\* Lines 137-140: a line that looks like any header.
LooksLikeHeader(line) ==
    /\ \/ Contains(clean_line(line), <<"transcript">>)
       \/ Contains(clean_line(line), <<"translation">>)
    /\ \/ Contains(clean_line(line), <<"timestamped">>)
       \/ clean_line(line) = <<"transcript">>
       \/ clean_line(line) = <<"translation">>

\* The priority list with the transcript first for 'both'.
priority_sections_transcript_first(choice) ==
    IF choice = "translation" THEN <<"timestamped translation">>
    ELSE IF choice = "transcript" THEN <<"timestamped transcript">>
    ELSE <<"timestamped transcript", "timestamped translation">>

\* Lines 94-100.
priority_sections(choice) ==
    IF choice = "translation" THEN <<"timestamped translation">>
    ELSE IF choice = "transcript" THEN <<"timestamped transcript">>
    ELSE <<"timestamped translation", "timestamped transcript">>

\* The first line holding the target header, 0 if there is none.
FirstHeader(text, target) ==
    IF \E i \in DOMAIN text : IsHeaderLine(text[i], target)
    THEN CHOOSE i \in DOMAIN text :
            /\ IsHeaderLine(text[i], target)
            /\ \A k \in 1..(i - 1) : ~IsHeaderLine(text[k], target)
    ELSE 0

\* Lines 102-126: the targets are tried in priority order; 0 if none is found.
RECURSIVE found_start(_, _)
found_start(text, targets) ==
    IF targets = <<>> THEN 0
    ELSE IF FirstHeader(text, Head(targets)) # 0
         THEN FirstHeader(text, Head(targets))
         ELSE found_start(text, Tail(targets))

\* Lines 134-142: the next line after the start that looks like any header.
found_end(text, start) ==
    IF \E i \in (start + 1)..Len(text) : LooksLikeHeader(text[i])
    THEN CHOOSE i \in (start + 1)..Len(text) :
            /\ LooksLikeHeader(text[i])
            /\ \A k \in (start + 1)..(i - 1) : ~LooksLikeHeader(text[k])
    ELSE Len(text) + 1

\* lines[found_start+1 : found_end]
target_block(text, choice) ==
    LET start == found_start(text, priority_sections(choice))
    IN  IF start = 0 THEN <<>>
        ELSE SubSeq(text, start + 1, found_end(text, start) - 1)

RECURSIVE CuesOf(_)
CuesOf(block) ==
    IF block = <<>> THEN <<>>
    ELSE IF Head(block).kind = "cue"
         THEN <<[start |-> Head(block).start, text |-> Head(block).text]>>
                 \o CuesOf(Tail(block))
         ELSE CuesOf(Tail(block))

extract_segments(text, choice) == CuesOf(target_block(text, choice))

\* What generate_srt gets from one artifact: the segments, and whether the
\* selected section held a line with a malformed or missing timestamp.
ReadOutcome(text, choice) ==
    [segments |-> extract_segments(text, choice),
     bad |-> \E i \in DOMAIN target_block(text, choice) :
                target_block(text, choice)[i].kind = "badts"]

\* os.path.exists(transcript_path) is false: nothing is read.
NoArtifact == [segments |-> <<>>, bad |-> FALSE]

ReadOutcomes ==
    [choice \in ContentChoices |->
        {ReadOutcome(text, choice) : text \in Texts} \cup {NoArtifact}]

ExtractInit ==
    /\ transcript_text \in Texts
    /\ ex_content_choice \in ContentChoices
    /\ segments = <<>>
    /\ pcExtract = "call"

ExtractIdle ==
    /\ transcript_text = <<>>
    /\ ex_content_choice = "both"
    /\ segments = <<>>
    /\ pcExtract = "idle"

\* One call of extract_segments.
ExtractCall ==
    /\ pcExtract = "call"
    /\ segments' = extract_segments(transcript_text, ex_content_choice)
    /\ pcExtract' = "done"
    /\ UNCHANGED <<transcript_text, ex_content_choice>>
    /\ UNCHANGED <<planVars, txVars, srtVars, pipeVars, lineVars, splitVars, retryVars, regionVars, uploadVars>>

Max(a, b) == IF a > b THEN a ELSE b
Min(a, b) == IF a < b THEN a ELSE b

\* The duration rule without its upper clamp.
ideal_duration_no_cap(text_len) ==
    Max(MIN_DURATION_SEC, (text_len * TicksPerSec) \div CHARS_PER_SECOND + TicksPerSec)

\* Lines 207-208.
ideal_duration(text_len) ==
    Max(MIN_DURATION_SEC,
        Min((text_len * TicksPerSec) \div CHARS_PER_SECOND + TicksPerSec,
            MAX_DURATION_SEC))

\* The constraint taken as the chunk's end for every cue.
constraint_time_chunk_end(local_segments, j, offset, duration) == offset + duration

\* Lines 212-217.
constraint_time(local_segments, j, offset, duration) ==
    IF j < Len(local_segments)
    THEN (offset + local_segments[j + 1].start) - GAP_BETWEEN_SUBS
    ELSE offset + duration

\* The end time without the floor of lines 224-225.
global_end_no_floor(global_start, ideal_end, constraint) ==
    IF ideal_end < constraint THEN ideal_end ELSE constraint

\* Lines 219-225.
global_end(global_start, ideal_end, constraint) ==
    LET chosen == IF ideal_end < constraint THEN ideal_end ELSE constraint
    IN  IF chosen <= global_start THEN global_start + MIN_DURATION_SEC ELSE chosen

\* The entries one chunk appends (lines 203-227).  ideal_end and
\* constraint_time are kept beside the entry's start, end and text.
ChunkEntries(local_segments, offset, duration) ==
    [j \in 1..Len(local_segments) |->
        LET global_start == offset + local_segments[j].start
            ideal_end == global_start + ideal_duration(local_segments[j].text)
            constraint == constraint_time(local_segments, j, offset, duration)
        IN  [start |-> global_start,
             end |-> global_end(global_start, ideal_end, constraint),
             text |-> local_segments[j].text,
             ideal_end |-> ideal_end,
             constraint_time |-> constraint]]

WellOrdered(local_segments, duration) ==
    /\ \A j \in 1..(Len(local_segments) - 1) :
          local_segments[j].start <= local_segments[j + 1].start
    /\ \A j \in 1..Len(local_segments) : local_segments[j].start <= duration

\* Line 232 written as an assignment: global_offset = duration.
next_offset_assigned(offset, duration) == duration

\* Line 232, with the accumulation forgotten.
next_offset_not_accumulated(offset, duration) == offset

\* Line 232: global_offset += duration.
next_offset(offset, duration) == offset + duration

\* Line 235 with the test always false.
no_entries_never(entries) == FALSE

\* Line 235: not all_srt_entries.
no_entries(entries) == entries = <<>>

\* Lines 52-60: a negative time is written as 0; the time is cut to whole
\* milliseconds.  The result is the number of milliseconds the
\* HH:MM:SS,mmm text denotes.
format_timestamp_srt(seconds) ==
    IF seconds < 0 THEN 0 ELSE seconds \div TicksPerMs

\* Lines 240-244: the cues as written, numbered idx + 1.
WrittenCues(entries) ==
    [idx \in 1..Len(entries) |->
        [index |-> (idx - 1) + 1,
         start |-> format_timestamp_srt(entries[idx].start),
         end |-> format_timestamp_srt(entries[idx].end),
         text |-> entries[idx].text]]

\* split_audio names chunk k "chunk_00k.mp3" (split_audio.py line 142).  A
\* file name is kept as what re.findall(r'\d+', name) finds in it: the chunk
\* number and the 3 of the extension "mp3".
ChunkFileName(k) == <<k, 3>>

\* The chunk number in a file name.
ChunkNumber(name) == name[1]

\* Line 171: the last group of digits in the name, as an integer.
sort_key(name) == name[Len(name)]

\* sorted(names, key=sort_key): a stable sort, names of equal key keep the
\* order they have in the listing.
RECURSIVE sorted_by_key(_)
sorted_by_key(names) ==
    IF names = <<>> THEN <<>>
    ELSE LET least == CHOOSE i \in DOMAIN names :
                        /\ \A k \in DOMAIN names : sort_key(names[i]) <= sort_key(names[k])
                        /\ \A k \in 1..(i - 1) : sort_key(names[k]) # sort_key(names[i])
         IN  <<names[least]>>
                \o sorted_by_key(SubSeq(names, 1, least - 1)
                                    \o SubSeq(names, least + 1, Len(names)))

\* os.listdir returns the names in arbitrary order: here the chunk files
\* 1..n in ascending and in descending order, for n in 0..MaxChunks.
Listings ==
    UNION {{[i \in 1..n |-> ChunkFileName(i)], [i \in 1..n |-> ChunkFileName(n + 1 - i)]} :
           n \in 0..MaxChunks}

SrtInit ==
    /\ content_choice \in ContentChoices
    /\ first_chunk_offset \in FirstChunkOffsets
    /\ dir_listing \in Listings
    /\ srt_audio_files = <<>>
    /\ srt_i = 0
    /\ global_offset = 0
    /\ probed_total = 0
    /\ all_srt_entries = <<>>
    /\ srt_file = [state |-> "untouched", cues |-> <<>>]
    /\ srt_result = "none"
    /\ saw_bad_timestamp = FALSE
    /\ cues_well_ordered = TRUE
    /\ pcSrt = "list"

SrtIdle ==
    /\ content_choice = "both"
    /\ first_chunk_offset = 0
    /\ dir_listing = <<>>
    /\ srt_audio_files = <<>>
    /\ srt_i = 0
    /\ global_offset = 0
    /\ probed_total = 0
    /\ all_srt_entries = <<>>
    /\ srt_file = [state |-> "untouched", cues |-> <<>>]
    /\ srt_result = "none"
    /\ saw_bad_timestamp = FALSE
    /\ cues_well_ordered = TRUE
    /\ pcSrt = "idle"

srtParams == <<content_choice, first_chunk_offset, dir_listing>>

\* Lines 168-182: the chunk files are listed and sorted; without any,
\* generate_srt returns False.
SrtList ==
    /\ pcSrt = "list"
    /\ srt_audio_files' = sorted_by_key(dir_listing)
    /\ IF srt_audio_files' = <<>>
       THEN /\ pcSrt' = "done"
            /\ srt_result' = "False"
            /\ UNCHANGED <<srt_i, global_offset>>
       ELSE /\ pcSrt' = "chunks"
            /\ srt_i' = 1
            /\ global_offset' = first_chunk_offset
            /\ UNCHANGED srt_result
    /\ UNCHANGED <<srtParams, probed_total, all_srt_entries, srt_file,
                   saw_bad_timestamp, cues_well_ordered>>
    /\ UNCHANGED <<planVars, txVars, pipeVars, extractVars, lineVars, splitVars, retryVars, regionVars, uploadVars>>

\* One iteration of the for loop of line 185: the chunk's duration is probed,
\* its artifact (if any) is read and its cues are appended.
SrtChunk ==
    /\ pcSrt = "chunks"
    /\ srt_i <= Len(srt_audio_files)
    /\ \E duration \in Durations, read \in ReadOutcomes[content_choice] :
          /\ all_srt_entries' = all_srt_entries
                \o ChunkEntries(read.segments, global_offset, duration)
          /\ global_offset' = next_offset(global_offset, duration)
          /\ probed_total' = probed_total + duration
          /\ saw_bad_timestamp' = (saw_bad_timestamp \/ read.bad)
          /\ cues_well_ordered' = (cues_well_ordered /\ WellOrdered(read.segments, duration))
    /\ srt_i' = srt_i + 1
    /\ UNCHANGED <<srtParams, srt_audio_files, srt_file, srt_result, pcSrt>>
    /\ UNCHANGED <<planVars, txVars, pipeVars, extractVars, lineVars, splitVars, retryVars, regionVars, uploadVars>>

\* Lines 234-249: after the loop, no entry means False and the file is not
\* opened; otherwise the file is written and generate_srt returns True.
SrtWrite ==
    /\ pcSrt = "chunks"
    /\ srt_i > Len(srt_audio_files)
    /\ IF no_entries(all_srt_entries)
       THEN /\ srt_result' = "False"
            /\ UNCHANGED srt_file
       ELSE /\ srt_result' = "True"
            /\ srt_file' = [state |-> "written", cues |-> WrittenCues(all_srt_entries)]
    /\ pcSrt' = "done"
    /\ UNCHANGED <<srtParams, srt_audio_files, srt_i, global_offset, probed_total,
                   all_srt_entries, saw_bad_timestamp, cues_well_ordered>>
    /\ UNCHANGED <<planVars, txVars, pipeVars, extractVars, lineVars, splitVars, retryVars, regionVars, uploadVars>>

\* Lines 250-252: opening the file raises; generate_srt returns False.
SrtWriteFails ==
    /\ pcSrt = "chunks"
    /\ srt_i > Len(srt_audio_files)
    /\ ~no_entries(all_srt_entries)
    /\ srt_result' = "False"
    /\ pcSrt' = "done"
    /\ UNCHANGED <<srtParams, srt_audio_files, srt_i, global_offset, probed_total,
                   all_srt_entries, srt_file, saw_bad_timestamp, cues_well_ordered>>
    /\ UNCHANGED <<planVars, txVars, pipeVars, extractVars, lineVars, splitVars, retryVars, regionVars, uploadVars>>


(***************************************************************************)
(* Claims about the subtitle synthesizer (SpecSrt).                        *)
(***************************************************************************)

\* C5: when the selected section of a chunk's artifact held a line with a
\* malformed or absent timestamp, generate_srt returns the recoverable
\* parse-error signal, not success and not failure.
C5_BadTimestampSignalsParseError ==
    (pcSrt = "done" /\ saw_bad_timestamp) => srt_result = "PARSE_ERROR"

IndicesAscendFromOne ==
    \A k \in DOMAIN srt_file.cues : srt_file.cues[k].index = k

StartsNonDecreasing ==
    \A k \in 1..(Len(all_srt_entries) - 1) :
        all_srt_entries[k].start <= all_srt_entries[k + 1].start

\* C7 as stated: the indices of the emitted entries are 1, 2, ..., n in
\* emission order and global_start never decreases from an entry to the next.
C7_IndicesAndStartsMonotone ==
    IndicesAscendFromOne /\ StartsNonDecreasing

\* C7 as amended: the indices of the emitted entries are 1, 2, ..., n in
\* emission order; global_start never decreases from an entry to the next
\* provided that, in every chunk, the cue offsets are non-decreasing in file
\* order and no cue offset exceeds the chunk's probed duration.
C7_MonotoneForOrderedCues ==
    /\ IndicesAscendFromOne
    /\ cues_well_ordered => StartsNonDecreasing

\* A written file of ordered cues whose entries come from two chunks.
C7_Witness ==
    /\ srt_file.state = "written"
    /\ cues_well_ordered
    /\ first_chunk_offset = 0
    /\ Len(srt_file.cues) >= 3
    /\ all_srt_entries[1].start < 10 * TicksPerSec
    /\ all_srt_entries[Len(all_srt_entries)].start > 10 * TicksPerSec

IdealDurationsInRange ==
    \A text_len \in 0..MaxTextLen :
        /\ MIN_DURATION_SEC <= ideal_duration(text_len)
        /\ ideal_duration(text_len) <= MAX_DURATION_SEC

ClampedIdealInRange ==
    /\ IdealDurationsInRange
    /\ \A k \in DOMAIN all_srt_entries :
          /\ MIN_DURATION_SEC <= all_srt_entries[k].ideal_end - all_srt_entries[k].start
          /\ all_srt_entries[k].ideal_end - all_srt_entries[k].start <= MAX_DURATION_SEC

NoEntryLongerThanMax ==
    \A k \in DOMAIN all_srt_entries :
        /\ all_srt_entries[k].end <= all_srt_entries[k].ideal_end
        /\ all_srt_entries[k].end - all_srt_entries[k].start <= MAX_DURATION_SEC

\* C8 as stated: the clamped ideal duration lies in [1.5 s, 7 s]; an entry
\* whose constraint is tighter than its ideal end still ends at least 1.5 s
\* after its global_start; no entry lasts longer than 7 s.
C8_FloorHoldsUnderTighterConstraint ==
    /\ ClampedIdealInRange
    /\ \A k \in DOMAIN all_srt_entries :
          all_srt_entries[k].constraint_time < all_srt_entries[k].ideal_end =>
              all_srt_entries[k].end >= all_srt_entries[k].start + MIN_DURATION_SEC
    /\ NoEntryLongerThanMax

\* C8 as amended: the clamped ideal duration lies in [1.5 s, 7 s]; no entry
\* ends after its ideal end, so none lasts longer than 7 s; an entry whose
\* constraint is at or before its global_start ends exactly 1.5 s after its
\* global_start; an entry whose constraint lies strictly between its
\* global_start and its ideal end ends at the constraint.
C8_ClampAndFloorOnlyOnCollapse ==
    /\ ClampedIdealInRange
    /\ NoEntryLongerThanMax
    /\ \A k \in DOMAIN all_srt_entries :
          /\ all_srt_entries[k].constraint_time <= all_srt_entries[k].start =>
                all_srt_entries[k].end = all_srt_entries[k].start + MIN_DURATION_SEC
          /\ (/\ all_srt_entries[k].start < all_srt_entries[k].constraint_time
              /\ all_srt_entries[k].constraint_time <= all_srt_entries[k].ideal_end) =>
                all_srt_entries[k].end = all_srt_entries[k].constraint_time

\* A finished run that emitted an entry cut short by the next cue, an entry
\* floored to 1.5 s, and a hundred-character entry lasting the full 7 s.
C8_Witness ==
    /\ pcSrt = "done"
    /\ \E k \in DOMAIN all_srt_entries :
          /\ all_srt_entries[k].start < all_srt_entries[k].constraint_time
          /\ all_srt_entries[k].end = all_srt_entries[k].constraint_time
          /\ all_srt_entries[k].end - all_srt_entries[k].start < MIN_DURATION_SEC
    /\ \E k \in DOMAIN all_srt_entries :
          /\ all_srt_entries[k].constraint_time <= all_srt_entries[k].start
          /\ all_srt_entries[k].end = all_srt_entries[k].start + MIN_DURATION_SEC
    /\ \E k \in DOMAIN all_srt_entries :
          /\ all_srt_entries[k].text = 100
          /\ all_srt_entries[k].end - all_srt_entries[k].start = MAX_DURATION_SEC

\* C9: every emitted entry has global_end > global_start, whatever the cue
\* offsets, text lengths, probed durations (0 included) and first-chunk offset.
C9_EndAfterStart ==
    \A k \in DOMAIN all_srt_entries :
        all_srt_entries[k].end > all_srt_entries[k].start

\* A written file holding an entry of a chunk whose probed duration was 0,
\* in a run with a negative first-chunk offset.
C9_Witness ==
    /\ srt_file.state = "written"
    /\ first_chunk_offset < 0
    /\ \E k \in DOMAIN all_srt_entries :
          /\ all_srt_entries[k].constraint_time < all_srt_entries[k].start
          /\ all_srt_entries[k].start < 0

\* C39: in the written subtitle file every cue's end timestamp is strictly
\* later than its start timestamp, also for entries whose global times are
\* negative and are written as 0.
C39_WrittenEndAfterStart ==
    srt_file.state = "written" =>
        \A k \in DOMAIN srt_file.cues : srt_file.cues[k].end > srt_file.cues[k].start

\* C10: when no cue was extracted from any chunk, generate_srt returns False
\* and the subtitle file is neither created nor modified.
C10_NoCuesReturnsFalseFileUntouched ==
    (pcSrt = "done" /\ all_srt_entries = <<>>) =>
        (srt_result = "False" /\ srt_file.state = "untouched")

\* A finished run over two chunks whose artifacts yielded no cue, one of them
\* holding a line with a bad timestamp in the selected section.
C10_Witness ==
    /\ pcSrt = "done"
    /\ Len(srt_audio_files) = 2
    /\ saw_bad_timestamp
    /\ all_srt_entries = <<>>
    /\ srt_result = "False"

-----------------------------------------------------------------------------
(***************************************************************************)
(* PIPELINE (process_audio.py, run_pipeline).                              *)
(* The stages run_pipeline calls are its collaborators: each call's        *)
(* outcome is one of the values run_pipeline's code distinguishes.  For    *)
(* generate_srt these are True, 'PARSE_ERROR', any other value, and an     *)
(* exception (lines 232-255).                                              *)
(***************************************************************************)

\* Bound: at most MaxSignals control messages are received in one run.
MaxSignals == 2

\* What the control channel can deliver: the two messages of the GUI
\* (audio_processor_gui.py lines 483 and 584) and any other object.
Signals == {"RETRY_COMBINE", "STOP_PROCESSING", "OTHER"}

SrtOutcomes == {"True", "PARSE_ERROR", "False", "raises"}

ParamSets ==
    [input_is_file : BOOLEAN, api_key : BOOLEAN, is_video : BOOLEAN,
     skip_split : BOOLEAN, audio_chunks_dir : {"none", "missing", "dir"},
     cleanup : BOOLEAN, control_queue : BOOLEAN]

\* Lines 142-146: the caller's chunk directory is used only with skip_split
\* and when it is an existing directory.
audio_chunk_dir(p) ==
    IF p.skip_split /\ p.audio_chunks_dir = "dir" THEN "caller_chunks" ELSE "own_chunks"

\* Lines 124 and 152: the stage after validation and after conversion.
AfterConvert(p) == IF p.skip_split THEN "transcribe" ELSE "split"
AfterValidate(p) == IF p.is_video THEN "convert" ELSE AfterConvert(p)

\* Lines 242-245 with the stop message treated like any other message.
after_signal_ignores_stop(retry_signal) == "combine"

\* Lines 242-245: where run_pipeline goes after a control message.  A message
\* that is neither RETRY_COMBINE nor STOP_PROCESSING falls out of the if and
\* the while loop of line 221 runs again.
after_signal(retry_signal) ==
    IF retry_signal = "RETRY_COMBINE" THEN "combine"
    ELSE IF retry_signal = "STOP_PROCESSING" THEN "return_false"
    ELSE "combine"

\* Lines 261-265 without the test of line 261: the chunk directory in use is
\* deleted whoever supplied it.
CleanupTargetsUnguarded(p) ==
    <<audio_chunk_dir(p), "intermediate_transcripts">>
    \o (IF p.is_video THEN <<"converted_mp3">> ELSE <<>>)

\* Lines 261-265: what cleanup deletes, in order.
CleanupTargets(p) ==
    (IF ~(p.skip_split /\ p.audio_chunks_dir # "none"
            /\ audio_chunk_dir(p) = "caller_chunks")
     THEN <<audio_chunk_dir(p)>> ELSE <<>>)
    \o <<"intermediate_transcripts">>
    \o (IF p.is_video THEN <<"converted_mp3">> ELSE <<>>)

PipeInit ==
    /\ params \in ParamSets
    /\ pcPipe = "start"
    /\ pipe_result = "none"
    /\ stage_log = <<>>
    /\ srt_calls = 0
    /\ received = <<>>
    /\ deleted = {}
    /\ failed_stage = "none"
    /\ pipe_srt_result = "none"

PipeIdle ==
    /\ params = [input_is_file |-> FALSE, api_key |-> FALSE, is_video |-> FALSE,
                 skip_split |-> FALSE, audio_chunks_dir |-> "none",
                 cleanup |-> FALSE, control_queue |-> FALSE]
    /\ pcPipe = "idle"
    /\ pipe_result = "none"
    /\ stage_log = <<>>
    /\ srt_calls = 0
    /\ received = <<>>
    /\ deleted = {}
    /\ failed_stage = "none"
    /\ pipe_srt_result = "none"

\* A failed stage followed by the next stage all the same.
after_stage_ignores_failure(ok, next) == next

\* Lines 131-136, 168-180, 203-212 and 248-255: the stage that follows a
\* stage's call, or the return of False when the call reported failure.
after_stage(ok, next) == IF ok THEN next ELSE "return_false"

ReturnFalse ==
    /\ pcPipe' = "done"
    /\ pipe_result' = "False"

\* Lines 102-118: the input file and the API key are checked.
PipeStart ==
    /\ pcPipe = "start"
    /\ IF ~params.input_is_file \/ ~params.api_key
       THEN ReturnFalse
       ELSE /\ pcPipe' = AfterValidate(params)
            /\ UNCHANGED pipe_result
    /\ UNCHANGED <<params, stage_log, srt_calls, received, deleted, failed_stage,
                   pipe_srt_result>>
    /\ UNCHANGED <<planVars, txVars, srtVars, extractVars, lineVars, splitVars, retryVars, regionVars, uploadVars>>

\* Lines 124-140: a video input is converted to MP3.
PipeConvert ==
    /\ pcPipe = "convert"
    /\ stage_log' = Append(stage_log, "convert")
    /\ \E converted \in BOOLEAN :
          /\ failed_stage' = IF converted THEN failed_stage ELSE "convert"
          /\ IF after_stage(converted, AfterConvert(params)) = "return_false"
             THEN ReturnFalse
             ELSE /\ pcPipe' = after_stage(converted, AfterConvert(params))
                  /\ UNCHANGED pipe_result
    /\ UNCHANGED <<params, srt_calls, received, deleted, pipe_srt_result>>
    /\ UNCHANGED <<planVars, txVars, srtVars, extractVars, lineVars, splitVars, retryVars, regionVars, uploadVars>>

\* Lines 152-180: split_audio returns chunk files, returns none, or raises.
PipeSplit ==
    /\ pcPipe = "split"
    /\ stage_log' = Append(stage_log, "split")
    /\ \E outcome \in {"chunks", "empty", "raises"} :
          /\ failed_stage' = IF outcome = "chunks" THEN failed_stage ELSE "split"
          /\ IF after_stage(outcome = "chunks", "transcribe") = "return_false"
             THEN ReturnFalse
             ELSE /\ pcPipe' = after_stage(outcome = "chunks", "transcribe")
                  /\ UNCHANGED pipe_result
    /\ UNCHANGED <<params, srt_calls, received, deleted, pipe_srt_result>>
    /\ UNCHANGED <<planVars, txVars, srtVars, extractVars, lineVars, splitVars, retryVars, regionVars, uploadVars>>

\* Lines 183-212: run_transcription returns True, returns False, or raises.
PipeTranscribe ==
    /\ pcPipe = "transcribe"
    /\ stage_log' = Append(stage_log, "transcribe")
    /\ \E outcome \in {"True", "False", "raises"} :
          /\ failed_stage' = IF outcome = "True" THEN failed_stage ELSE "transcribe"
          /\ IF after_stage(outcome = "True", "combine") = "return_false"
             THEN ReturnFalse
             ELSE /\ pcPipe' = after_stage(outcome = "True", "combine")
                  /\ UNCHANGED pipe_result
    /\ UNCHANGED <<params, srt_calls, received, deleted, pipe_srt_result>>
    /\ UNCHANGED <<planVars, txVars, srtVars, extractVars, lineVars, splitVars, retryVars, regionVars, uploadVars>>

\* Lines 221-239 and 248-255: one call of generate_srt in the while loop.
PipeCombine ==
    /\ pcPipe = "combine"
    /\ stage_log' = Append(stage_log, "combine")
    /\ srt_calls' = srt_calls + 1
    /\ \E srt_result_value \in SrtOutcomes :
          /\ pipe_srt_result' = srt_result_value
          /\ IF srt_result_value = "PARSE_ERROR" /\ params.control_queue
             THEN /\ pcPipe' = "waiting"
                  /\ UNCHANGED <<pipe_result, failed_stage>>
             ELSE /\ failed_stage' = IF srt_result_value = "True" THEN failed_stage
                                                                  ELSE "combine"
                  /\ IF after_stage(srt_result_value = "True", "cleanup") = "return_false"
                     THEN ReturnFalse
                     ELSE /\ pcPipe' = after_stage(srt_result_value = "True", "cleanup")
                          /\ UNCHANGED pipe_result
    /\ UNCHANGED <<params, received, deleted>>
    /\ UNCHANGED <<planVars, txVars, srtVars, extractVars, lineVars, splitVars, retryVars, regionVars, uploadVars>>

\* Lines 241-245: the blocking get returns a control message.
PipeWaitGet ==
    /\ pcPipe = "waiting"
    /\ Len(received) < MaxSignals
    /\ \E retry_signal \in Signals :
          /\ received' = Append(received, retry_signal)
          /\ IF after_signal(retry_signal) = "return_false"
             THEN ReturnFalse
             ELSE /\ pcPipe' = after_signal(retry_signal)
                  /\ UNCHANGED pipe_result
    /\ UNCHANGED <<params, stage_log, srt_calls, deleted, failed_stage, pipe_srt_result>>
    /\ UNCHANGED <<planVars, txVars, srtVars, extractVars, lineVars, splitVars, retryVars, regionVars, uploadVars>>

\* Lines 246-247: the get raises.
PipeWaitRaises ==
    /\ pcPipe = "waiting"
    /\ ReturnFalse
    /\ UNCHANGED <<params, stage_log, srt_calls, received, deleted, failed_stage,
                   pipe_srt_result>>
    /\ UNCHANGED <<planVars, txVars, srtVars, extractVars, lineVars, splitVars, retryVars, regionVars, uploadVars>>

\* Lines 257-274: with cleanup set, the targets are deleted in order until
\* one deletion raises (the exception is caught); run_pipeline returns True.
PipeCleanup ==
    /\ pcPipe = "cleanup"
    /\ IF params.cleanup
       THEN /\ stage_log' = Append(stage_log, "cleanup")
            /\ \E n \in 0..Len(CleanupTargets(params)) :
                  deleted' = {CleanupTargets(params)[k] : k \in 1..n}
       ELSE UNCHANGED <<stage_log, deleted>>
    /\ pcPipe' = "done"
    /\ pipe_result' = "True"
    /\ UNCHANGED <<params, srt_calls, received, failed_stage, pipe_srt_result>>
    /\ UNCHANGED <<planVars, txVars, srtVars, extractVars, lineVars, splitVars, retryVars, regionVars, uploadVars>>

\* C6: once STOP_PROCESSING has been received while run_pipeline waited for the
\* operator's correction, run_pipeline has returned failure, generate_srt has
\* not been called again after the stop (every call made was followed by a
\* received message), and cleanup has not run.
C6_StopWhileWaitingReturnsFailure ==
    (received # <<>> /\ received[Len(received)] = "STOP_PROCESSING") =>
        /\ pcPipe = "done"
        /\ pipe_result = "False"
        /\ srt_calls = Len(received)
        /\ deleted = {}
        /\ \A k \in DOMAIN stage_log : stage_log[k] # "cleanup"

\* A run with cleanup requested that waited twice: the first wait ended with
\* RETRY_COMBINE and a second generate_srt call, the second with
\* STOP_PROCESSING.
C6_Witness ==
    /\ params.cleanup
    /\ received = <<"RETRY_COMBINE", "STOP_PROCESSING">>
    /\ srt_calls = 2
    /\ pcPipe = "done"
    /\ pipe_result = "False"

\* The chunk directory split_audio leaves, listed in ascending chunk number.
ExportedListing == [k \in DOMAIN chunk_files |-> ChunkFileName(chunk_files[k].number)]

\* The duration generate_srt probes for an exported chunk (line 190), taken as
\* the length that was exported.
ProbedDuration(chunk) == chunk.end - chunk.start

\* Lines 181 and 232 over the files of the chunk directory: global_offset when
\* the k-th file of the sorted listing is processed.
RECURSIVE OffsetAtChunk(_, _, _)
OffsetAtChunk(files, k, offset) ==
    IF k = 1 THEN offset
    ELSE next_offset(OffsetAtChunk(files, k - 1, offset), ProbedDuration(files[k - 1]))

\* first_chunk_offset in the exporter's units.
ExportFirstChunkOffsets == {0 - 2, 0}

\* C21: for every exported chunk, the global offset generate_srt uses for it
\* (the directory being listed in ascending chunk number) is first_chunk_offset
\* plus the chunk's start in the source timeline, also when an earlier planned
\* chunk failed to export or was skipped.
C21_OffsetIsChunkStart ==
    (pcSplit = "done" /\ split_result = "chunks"
        /\ sorted_by_key(ExportedListing) = ExportedListing) =>
        \A offset \in ExportFirstChunkOffsets : \A k \in DOMAIN chunk_files :
            OffsetAtChunk(chunk_files, k, offset) = offset + chunk_files[k].start

StageRank(stage) ==
    CASE stage = "convert" -> 0
      [] stage = "split" -> 1
      [] stage = "transcribe" -> 2
      [] stage = "combine" -> 3
      [] stage = "cleanup" -> 4

Ran(stage) == \E k \in DOMAIN stage_log : stage_log[k] = stage

\* C18: the stages are called in the order splitting, transcription,
\* synthesis (each at most once, but for the repeated synthesis calls of the
\* correction loop), a stage is called only after the stage before it reported
\* success, and once a stage has reported failure run_pipeline has returned
\* False with that stage the last one called and nothing cleaned up.
C18_StagesInOrderStopAtFailure ==
    /\ \A i, j \in DOMAIN stage_log :
          i < j => \/ StageRank(stage_log[i]) < StageRank(stage_log[j])
                   \/ stage_log[i] = "combine" /\ stage_log[j] = "combine"
    /\ Ran("transcribe") => (Ran("split") \/ params.skip_split)
    /\ Ran("combine") => Ran("transcribe")
    /\ Ran("cleanup") => Ran("combine")
    /\ failed_stage # "none" =>
          /\ pcPipe = "done"
          /\ pipe_result = "False"
          /\ stage_log[Len(stage_log)] = failed_stage
          /\ deleted = {}
          /\ ~Ran("cleanup")

\* A run with cleanup requested in which conversion, splitting and
\* transcription succeeded and synthesis failed.
C18_Witness ==
    /\ params.cleanup
    /\ pcPipe = "done"
    /\ stage_log = <<"convert", "split", "transcribe", "combine">>
    /\ failed_stage = "combine"

\* C36: cleanup runs only after generate_srt reported that the subtitle file
\* was written, and an error raised during cleanup leaves run_pipeline's
\* result True.
C36_CleanupAfterSrtErrorsKept ==
    /\ deleted # {} => Ran("cleanup")
    /\ Ran("cleanup") =>
          /\ params.cleanup
          /\ pipe_srt_result = "True"
          /\ stage_log[Len(stage_log)] = "cleanup"
          /\ stage_log[Len(stage_log) - 1] = "combine"
          /\ pcPipe = "done"
          /\ pipe_result = "True"

\* A video input whose cleanup deleted the chunk directory and then raised
\* on the transcript directory: run_pipeline returned True.
C36_Witness ==
    /\ pcPipe = "done"
    /\ pipe_result = "True"
    /\ Len(CleanupTargets(params)) = 3
    /\ deleted = {"own_chunks"}
    /\ pipe_srt_result = "True"

\* C37: with cleanup set run_pipeline never deletes a chunk directory the
\* caller supplied through skip_split and audio_chunks_dir; the only chunk
\* directory it deletes is the one under its own output directory.
C37_CallerChunkDirKept ==
    /\ "caller_chunks" \notin deleted
    /\ deleted \subseteq {"own_chunks", "intermediate_transcripts", "converted_mp3"}
    /\ (params.skip_split /\ params.audio_chunks_dir = "dir") => "own_chunks" \notin deleted

\* A finished run with cleanup over the caller's chunk directory: the
\* transcript directory was deleted and no chunk directory.
C37_Witness ==
    /\ pcPipe = "done"
    /\ params.cleanup /\ params.skip_split /\ params.audio_chunks_dir = "dir"
    /\ audio_chunk_dir(params) = "caller_chunks"
    /\ "intermediate_transcripts" \in deleted

\* The RETRY_COMBINE messages among the control messages received.
RetriesReceived == {k \in DOMAIN received : received[k] = "RETRY_COMBINE"}

C22_OffsetIsSumOfDurations ==
    (pcSrt \in {"chunks", "done"} /\ srt_audio_files # <<>>) =>
        global_offset = first_chunk_offset + probed_total

\* Two chunks processed with a non-zero first_chunk_offset: one probe gave
\* 10 s and the other failed, one chunk yielded a single cue and the other
\* none.
C22_Witness ==
    /\ pcSrt = "chunks"
    /\ srt_i = 3
    /\ first_chunk_offset # 0
    /\ probed_total = 10 * TicksPerSec
    /\ Len(all_srt_entries) = 1

\* C23: every cue a chunk appends ends at the smaller of global_start +
\* idealDuration and its constraint, the constraint being the next cue's
\* global start minus the gap when the chunk has a next cue and the chunk's
\* end (global offset plus duration, the offset of the next chunk) otherwise;
\* the end is global_start + 1.5 s instead exactly when that minimum is not
\* after global_start.
C23_EndIsMinOfIdealAndConstraint ==
    [][\A n \in (Len(all_srt_entries) + 1)..Len(all_srt_entries') :
          LET entry == all_srt_entries'[n]
              constraint == IF n < Len(all_srt_entries')
                            THEN all_srt_entries'[n + 1].start - GAP_BETWEEN_SUBS
                            ELSE global_offset'
              smaller == Min(entry.start + ideal_duration(entry.text), constraint)
          IN  entry.end = IF smaller <= entry.start
                          THEN entry.start + MIN_DURATION_SEC
                          ELSE smaller]_vars

\* Entries of the three kinds: one ending at its ideal end, before its
\* constraint; one cut at the next cue's start minus the gap; one whose
\* minimum collapsed and which lasts 1.5 s.
C23_Witness ==
    /\ \E n \in DOMAIN all_srt_entries :
          /\ all_srt_entries[n].ideal_end < all_srt_entries[n].constraint_time
          /\ all_srt_entries[n].end = all_srt_entries[n].ideal_end
    /\ \E n \in 1..(Len(all_srt_entries) - 1) :
          /\ all_srt_entries[n].constraint_time
                = all_srt_entries[n + 1].start - GAP_BETWEEN_SUBS
          /\ all_srt_entries[n].constraint_time > all_srt_entries[n].start
          /\ all_srt_entries[n].end = all_srt_entries[n].constraint_time
    /\ \E n \in DOMAIN all_srt_entries :
          /\ all_srt_entries[n].constraint_time <= all_srt_entries[n].start
          /\ all_srt_entries[n].end = all_srt_entries[n].start + MIN_DURATION_SEC

\* C13: generate_srt processes the chunks in ascending chunk number, whatever
\* the order in which the files are listed (the order the workers wrote them).
C13_ChunksInAscendingNumber ==
    pcSrt \in {"chunks", "done"} =>
        \A i, j \in DOMAIN srt_audio_files :
            i < j => ChunkNumber(srt_audio_files[i]) < ChunkNumber(srt_audio_files[j])

-----------------------------------------------------------------------------
(***************************************************************************)
(* ONE LINE OF THE SELECTED SECTION (combine_transcripts.py, lines 147-160 *)
(* and parse_timestamp_sec).  Here a line is the sequence of its           *)
(* characters.  Times read from a line are in milliseconds.                *)
(***************************************************************************)
DigitChars == {"0", "1", "2", "3", "4", "5"}

IsDigit(c) == c \in DigitChars

DigitVal(c) ==
    IF c = "0" THEN 0 ELSE IF c = "1" THEN 1 ELSE IF c = "2" THEN 2
    ELSE IF c = "3" THEN 3 ELSE IF c = "4" THEN 4 ELSE 5

\* int() of a string of digits.
RECURSIVE IntOf(_)
IntOf(digits) ==
    IF digits = <<>> THEN 0
    ELSE 10 * IntOf(SubSeq(digits, 1, Len(digits) - 1)) + DigitVal(digits[Len(digits)])

\* The parts a line is assembled from: what stands before the timestamp, a
\* blank or none, the minutes, the colon, the seconds, the fraction, the
\* closing bracket, the colon after it, and the rest of the line.
LeadParts == {<<>>, <<"[">>, <<"(">>, <<"H">>, <<"*", "*", "[">>}
GapParts == {<<>>, <<" ">>}
MinuteParts == {<<>>, <<"1">>, <<"0", "0">>, <<"1", "0", "0">>}
SepParts == {<<>>, <<":">>}
SecondParts == {<<"0", "5">>, <<"5">>}
FracParts == {<<>>, <<".", "5">>, <<":", "5">>, <<".", "1", "2", "3", "4">>}
CloseParts == {<<>>, <<"]">>, <<")">>}
ColonParts == {<<>>, <<":">>}
RestParts == {<<>>, <<" ">>, <<" ", "H", "i">>, <<"H", "i">>, <<" ", "*", "*">>}

LinePartSets ==
    [lead : LeadParts, gap : GapParts, minutes : MinuteParts, sep : SepParts,
     seconds : SecondParts, frac : FracParts, close : CloseParts,
     colon : ColonParts, rest : RestParts]

\* The line as it stands in the artifact.
LineChars(parts) ==
    parts.lead \o parts.gap \o parts.minutes \o parts.sep \o parts.seconds
        \o parts.frac \o parts.close \o parts.colon \o parts.rest

\* .replace('**', '') and .replace('__', ''): every pair is removed, scanning
\* from the left.
RECURSIVE RemovePairs(_)
RemovePairs(q) ==
    IF Len(q) < 2 THEN q
    ELSE IF q[1] = q[2] /\ q[1] \in {"*", "_"} THEN RemovePairs(SubSeq(q, 3, Len(q)))
    ELSE <<q[1]>> \o RemovePairs(Tail(q))

\* Line 148.
line_clean(chars) == RemovePairs(Strip(chars))

\* The character at position i, "" past the end.
At(q, i) == IF i \in 1..Len(q) THEN q[i] ELSE ""

\* \s* from position i: the first position that holds no blank.
RECURSIVE SkipSpaces(_, _)
SkipSpaces(q, i) == IF At(q, i) = " " THEN SkipSpaces(q, i + 1) ELSE i

\* \d{1,2} followed by ':' at position i: the number of digits taken, 0 when
\* the pattern does not match there.
MinuteDigits(q, i) ==
    IF IsDigit(At(q, i)) /\ IsDigit(At(q, i + 1)) /\ At(q, i + 2) = ":" THEN 2
    ELSE IF IsDigit(At(q, i)) /\ At(q, i + 1) = ":" THEN 1
    ELSE 0

\* (?:[:.]\d{1,3})? at position k: the number of characters taken.
FracChars(q, k) ==
    IF At(q, k) \in {":", "."} /\ IsDigit(At(q, k + 1))
    THEN IF IsDigit(At(q, k + 2))
         THEN (IF IsDigit(At(q, k + 3)) THEN 4 ELSE 3)
         ELSE 2
    ELSE 0

\* Line 157 with the test always true.
has_text_always(text) == TRUE

\* Line 157: "if text:".
has_text(text) == text # <<>>

\* str.split(':')
RECURSIVE SplitAtColons(_)
SplitAtColons(q) ==
    IF \E i \in DOMAIN q : q[i] = ":"
    THEN LET i == CHOOSE n \in DOMAIN q : q[n] = ":" /\ \A k \in 1..(n - 1) : q[k] # ":"
         IN  <<SubSeq(q, 1, i - 1)>> \o SplitAtColons(SubSeq(q, i + 1, Len(q)))
    ELSE <<q>>

\* float() of digits with an optional '.' and fraction digits, in milliseconds;
\* digits beyond the third fraction digit do not occur in a matched token.
FloatMs(q) ==
    IF \E i \in DOMAIN q : q[i] = "."
    THEN LET i == CHOOSE n \in DOMAIN q : q[n] = "."
             fraction == SubSeq(q, i + 1, Len(q))
         IN  1000 * IntOf(SubSeq(q, 1, i - 1))
                + IntOf(fraction)
                    * (IF Len(fraction) = 1 THEN 100 ELSE IF Len(fraction) = 2 THEN 10 ELSE 1)
    ELSE 1000 * IntOf(q)

\* Lines 62-74, on a token of digits, ':' and '.': milliseconds, or -1 for None.
parse_timestamp_sec(timestamp_str) ==
    LET fields == SplitAtColons(timestamp_str)
    IN  IF Len(fields) = 3
        THEN IntOf(fields[1]) * 3600000 + IntOf(fields[2]) * 60000 + FloatMs(fields[3])
        ELSE IF Len(fields) = 2
        THEN IntOf(fields[1]) * 60000 + FloatMs(fields[2])
        ELSE 0 - 1

NoCue == [matched |-> FALSE, sec |-> 0, text |-> <<>>]

\* Lines 148-160 for one line: the cue the line yields, or none.
line_segment(chars) ==
    LET q == line_clean(chars)
        first == SkipSpaces(q, IF At(q, 1) \in {"[", "("} THEN 2 ELSE 1)
        m == MinuteDigits(q, first)
        second == first + m + 1
        after_seconds == second + 2
        token_end == after_seconds + FracChars(q, after_seconds)
        after_close == IF At(q, token_end) \in {"]", ")"} THEN token_end + 1 ELSE token_end
        after_colon == IF At(q, after_close) = ":" THEN after_close + 1 ELSE after_close
        text == Strip(SubSeq(q, SkipSpaces(q, after_colon), Len(q)))
        ts_str == SubSeq(q, first, token_end - 1)
    IN  IF m > 0 /\ IsDigit(At(q, second)) /\ IsDigit(At(q, second + 1))
        THEN IF has_text(text) /\ parse_timestamp_sec(ts_str) >= 0
             THEN [matched |-> TRUE, sec |-> parse_timestamp_sec(ts_str), text |-> text]
             ELSE NoCue
        ELSE NoCue

LineInit ==
    /\ line_parts \in LinePartSets
    /\ line_cue = NoCue
    /\ pcLine = "read"

LineIdle ==
    /\ line_parts = [lead |-> <<>>, gap |-> <<>>, minutes |-> <<>>, sep |-> <<>>,
                     seconds |-> <<"5">>, frac |-> <<>>, close |-> <<>>,
                     colon |-> <<>>, rest |-> <<>>]
    /\ line_cue = NoCue
    /\ pcLine = "idle"

\* One iteration of the loop of line 147.
LineRead ==
    /\ pcLine = "read"
    /\ line_cue' = line_segment(LineChars(line_parts))
    /\ pcLine' = "done"
    /\ UNCHANGED line_parts
    /\ UNCHANGED <<planVars, txVars, srtVars, pipeVars, extractVars, splitVars, retryVars, regionVars, uploadVars>>

\* The line begins with a timestamp token, bare or after an opening bracket
\* or parenthesis (bold marks around it do not count): one or two minute
\* digits, a colon and two second digits.
BeginsWithTimestamp(parts) ==
    /\ parts.lead \in {<<>>, <<"[">>, <<"(">>, <<"*", "*", "[">>}
    /\ Len(parts.minutes) \in {1, 2}
    /\ parts.sep = <<":">>
    /\ Len(parts.seconds) = 2

\* What follows the token and the closing bracket and colon right after it,
\* without bold marks and outer blanks.  A fraction has at most three digits:
\* further digits, and all that follows them, are text.
TrailingText(parts) ==
    IF Len(parts.frac) > 4
    THEN Strip(RemovePairs(SubSeq(parts.frac, 5, Len(parts.frac))
                            \o parts.close \o parts.colon \o parts.rest))
    ELSE Strip(RemovePairs(parts.rest))

\* The fraction the digits after the ':' or '.' denote, in milliseconds: at
\* most three digits belong to the token.
FractionMs(frac) ==
    IF frac = <<>> THEN 0
    ELSE LET digits == SubSeq(frac, 2, Min(Len(frac), 4))
         IN  IntOf(digits)
                * (IF Len(digits) = 1 THEN 100 ELSE IF Len(digits) = 2 THEN 10 ELSE 1)

\* C27: the offset of a cue line whose token is M:SS, M:SS.f or M:SS:f is
\* 60 * M + SS seconds plus the fraction f: the digits after the ':' or '.'
\* are read as fractional seconds.
C27_OffsetIsMinutesSecondsFraction ==
    (pcLine = "done" /\ line_cue.matched) =>
        line_cue.sec = 60000 * IntOf(line_parts.minutes)
                          + 1000 * IntOf(line_parts.seconds)
                          + FractionMs(line_parts.frac)

\* C12: a line of the selected section yields a cue exactly when it begins
\* with an (optionally bracket- or paren-wrapped) timestamp token and has
\* non-empty trailing text; "(1:05.5): Hi" yields (65.5 s, "Hi"); every line
\* is either read as a cue or dropped.
C12_CueIffTimestampAndText ==
    pcLine = "done" =>
        /\ line_cue.matched <=>
              (BeginsWithTimestamp(line_parts) /\ TrailingText(line_parts) # <<>>)
        /\ line_cue.matched => line_cue.text = TrailingText(line_parts)
        /\ LineChars(line_parts) = <<"(", "1", ":", "0", "5", ".", "5", ")", ":", " ", "H", "i">>
              => line_cue = [matched |-> TRUE, sec |-> 65500, text |-> <<"H", "i">>]

\* The line "(1:05.5): Hi" has been read.
C12_Witness ==
    /\ pcLine = "done"
    /\ LineChars(line_parts) = <<"(", "1", ":", "0", "5", ".", "5", ")", ":", " ", "H", "i">>
    /\ line_cue.matched

(***************************************************************************)
(* Claims about the cue extractor (SpecExtract).                           *)
(***************************************************************************)

\* The section a line of the artifact belongs to: the section of the nearest
\* header line at or above it, whatever the header's form; "" above the first
\* header.
SectionOf(text, i) ==
    IF \E h \in 1..i : text[h].kind = "hdr"
    THEN text[CHOOSE h \in 1..i :
                /\ text[h].kind = "hdr"
                /\ \A k \in (h + 1)..i : text[k].kind # "hdr"].sec
    ELSE ""

\* The cues of the lines that belong to the section sec, in file order.
RECURSIVE SectionCuesFrom(_, _, _)
SectionCuesFrom(text, sec, i) ==
    IF i > Len(text) THEN <<>>
    ELSE IF text[i].kind = "cue" /\ SectionOf(text, i) = sec
         THEN <<[start |-> text[i].start, text |-> text[i].text]>>
                 \o SectionCuesFrom(text, sec, i + 1)
         ELSE SectionCuesFrom(text, sec, i + 1)

\* q can be obtained from r by deleting elements.
RECURSIVE IsSubsequence(_, _)
IsSubsequence(q, r) ==
    IF q = <<>> THEN TRUE
    ELSE IF r = <<>> THEN FALSE
    ELSE IF Head(q) = Head(r) THEN IsSubsequence(Tail(q), Tail(r))
    ELSE IsSubsequence(q, Tail(r))

HasHeader(text, sec) == \E i \in DOMAIN text : text[i].kind = "hdr" /\ text[i].sec = sec

\* C26: with selector both, extract_segments returns what selector translation
\* returns whenever the text holds a Timestamped Translation header, even if
\* that is no cue at all, and what selector transcript returns only when the
\* text holds no Timestamped Translation header.
C26_BothPrefersTranslationHeader ==
    (pcExtract = "done" /\ ex_content_choice = "both") =>
        segments = IF HasHeader(transcript_text, "timestamped translation")
                   THEN extract_segments(transcript_text, "translation")
                   ELSE extract_segments(transcript_text, "transcript")

\* A text whose Timestamped Transcript section holds a cue and whose
\* Timestamped Translation section, which comes after it, holds none:
\* selector both returns no cue.
C26_Witness ==
    /\ pcExtract = "done" /\ ex_content_choice = "both"
    /\ Len(transcript_text) = 3
    /\ transcript_text[1].kind = "hdr" /\ transcript_text[1].sec = "timestamped transcript"
    /\ transcript_text[2].kind = "cue"
    /\ transcript_text[3].kind = "hdr" /\ transcript_text[3].sec = "timestamped translation"
    /\ extract_segments(transcript_text, "transcript") # <<>>
    /\ segments = <<>>

\* C11: with selector translation (respectively transcript) every cue that
\* extract_segments returns comes from a line of the Timestamped Translation
\* (respectively Timestamped Transcript) section; no cue line of another
\* section is returned, whatever the order of the sections.
C11_CuesOnlyFromSelectedSection ==
    (pcExtract = "done" /\ ex_content_choice \in {"translation", "transcript"}) =>
        IsSubsequence(segments,
            SectionCuesFrom(transcript_text,
                priority_sections(ex_content_choice)[1], 1))

-----------------------------------------------------------------------------
InitPlanner == PlanInit /\ TxIdle /\ SrtIdle /\ PipeIdle /\ ExtractIdle /\ LineIdle /\ SplitIdle /\ RetryIdle /\ RegionIdle /\ UploadIdle
NextPlanner == PlanCall
SpecPlanner == InitPlanner /\ [][NextPlanner]_vars

InitTranscribe == TxInit /\ PlanIdle /\ SrtIdle /\ PipeIdle /\ ExtractIdle /\ LineIdle /\ SplitIdle /\ RetryIdle /\ RegionIdle /\ UploadIdle
NextTranscribe ==
    \/ RunStart
    \/ \E w \in WorkerIds : WorkerSkip(w)
    \/ \E w \in WorkerIds : WorkerBegin(w)
    \/ \E w \in WorkerIds : AttemptSucceeds(w)
    \/ \E w \in WorkerIds : AttemptFails(w)
    \/ \E w \in WorkerIds : WorkerCount(w)
    \/ RunFinish
SpecTranscribe == InitTranscribe /\ [][NextTranscribe]_vars

InitSrt == SrtInit /\ PlanIdle /\ TxIdle /\ PipeIdle /\ ExtractIdle /\ LineIdle /\ SplitIdle /\ RetryIdle /\ RegionIdle /\ UploadIdle
NextSrt ==
    \/ SrtList
    \/ SrtChunk
    \/ SrtWrite
    \/ SrtWriteFails
SpecSrt == InitSrt /\ [][NextSrt]_vars

InitExtract == ExtractInit /\ PlanIdle /\ TxIdle /\ SrtIdle /\ PipeIdle /\ LineIdle /\ SplitIdle /\ RetryIdle /\ RegionIdle /\ UploadIdle
NextExtract == ExtractCall
SpecExtract == InitExtract /\ [][NextExtract]_vars

InitLine == LineInit /\ PlanIdle /\ TxIdle /\ SrtIdle /\ PipeIdle /\ ExtractIdle /\ SplitIdle /\ RetryIdle /\ RegionIdle /\ UploadIdle
NextLine == LineRead
SpecLine == InitLine /\ [][NextLine]_vars

InitPipeline == PipeInit /\ PlanIdle /\ TxIdle /\ SrtIdle /\ ExtractIdle /\ LineIdle /\ SplitIdle /\ RetryIdle /\ RegionIdle /\ UploadIdle
NextPipeline ==
    \/ PipeStart
    \/ PipeConvert
    \/ PipeSplit
    \/ PipeTranscribe
    \/ PipeCombine
    \/ PipeWaitGet
    \/ PipeWaitRaises
    \/ PipeCleanup
SpecPipeline == InitPipeline /\ [][NextPipeline]_vars

InitSplit ==
    SplitInit /\ PlanIdle /\ TxIdle /\ SrtIdle /\ PipeIdle /\ ExtractIdle /\ LineIdle
        /\ RetryIdle /\ RegionIdle /\ UploadIdle
NextSplit ==
    \/ SplitPlan
    \/ ExportSkip
    \/ ExportChunk
    \/ ExportFails
    \/ SplitReturn
SpecSplit == InitSplit /\ [][NextSplit]_vars

InitRetry ==
    RetryInit /\ PlanIdle /\ TxIdle /\ SrtIdle /\ PipeIdle /\ ExtractIdle /\ LineIdle
        /\ SplitIdle /\ RegionIdle /\ UploadIdle
NextRetry ==
    \/ RetrySucceeds
    \/ RetryFailsAndWaits
    \/ RetryGivesUp
SpecRetry == InitRetry /\ [][NextRetry]_vars

InitRegion ==
    RegionInit /\ PlanIdle /\ TxIdle /\ SrtIdle /\ PipeIdle /\ ExtractIdle /\ LineIdle
        /\ SplitIdle /\ RetryIdle /\ UploadIdle
NextRegion ==
    \/ \E w \in WorkerIds : AttemptWithClient(w)
    \/ \E w \in WorkerIds : RegionLock(w)
    \/ \E w \in WorkerIds : RegionRead(w)
    \/ \E w \in WorkerIds : RegionAdvance(w)
    \/ \E w \in WorkerIds : AttemptFailsRetry(w)
    \/ \E w \in WorkerIds : ChunkDone(w)
    \/ \E w \in WorkerIds : NextChunk(w)
SpecRegion == InitRegion /\ [][NextRegion]_vars

InitUpload ==
    UploadInit /\ PlanIdle /\ TxIdle /\ SrtIdle /\ PipeIdle /\ ExtractIdle /\ LineIdle
        /\ SplitIdle /\ RetryIdle /\ RegionIdle
\* The steps of the thread that runs process_audio_file.
UploadThread ==
    \/ UploadStaged
    \/ UploadRaises
    \/ PollProcessing
    \/ WaitOver
    \/ GenerateWritten
    \/ GenerateRaises
    \/ DeleteAndReturn
    \/ ExceptHandler
NextUpload ==
    \/ UploadStaged
    \/ UploadRaises
    \/ ServerProcesses
    \/ PollProcessing
    \/ WaitOver
    \/ GenerateWritten
    \/ GenerateRaises
    \/ DeleteAndReturn
    \/ ExceptHandler
SpecUpload == InitUpload /\ [][NextUpload]_vars
\* The thread keeps running; when the service finishes is left open.
SpecUploadFair == SpecUpload /\ WF_vars(UploadThread)

=============================================================================
